---- MODULE Spec2Model ----
(***************************************************************************)
(* Interview Practice Partner: the InterviewAgent session (app/            *)
(* interview_agent.py) and the Streamlit turn loop that drives it (app/    *)
(* main.py).                                                               *)
(*                                                                         *)
(* A text is a sequence of characters, each character a one-character      *)
(* string; a character outside ASCII is written by its code point          *)
(* ("U+2019").  Python's None is the value None below, which is no text.   *)
(***************************************************************************)
EXTENDS Integers, Sequences, FiniteSets, TLC

(***************************************************************************)
(* Python str primitives used by the program.                              *)
(***************************************************************************)
None == <<"<None>">>

\* Python truthiness of an Optional[str]: None and "" are falsy.
Truthy(x) == x # None /\ x # <<>>

Whitespace == {" ", "\t", "\n", "\r", "\f"}

UpperCase == <<"A","B","C","D","E","F","G","H","I","J","K","L","M",
               "N","O","P","Q","R","S","T","U","V","W","X","Y","Z">>
LowerCase == <<"a","b","c","d","e","f","g","h","i","j","k","l","m",
               "n","o","p","q","r","s","t","u","v","w","x","y","z">>

LowerChar(c) ==
    IF \E i \in DOMAIN UpperCase : UpperCase[i] = c
    THEN LowerCase[CHOOSE i \in DOMAIN UpperCase : UpperCase[i] = c]
    ELSE c

\* str.lower()
lower(s) == IF s = <<>> THEN <<>> ELSE [i \in 1..Len(s) |-> LowerChar(s[i])]

RECURSIVE LStrip(_, _)
LStrip(s, cs) ==
    IF s # <<>> /\ Head(s) \in cs THEN LStrip(Tail(s), cs) ELSE s

RECURSIVE RStrip(_, _)
RStrip(s, cs) ==
    IF s # <<>> /\ s[Len(s)] \in cs THEN RStrip(SubSeq(s, 1, Len(s) - 1), cs) ELSE s

\* str.strip(chars): removes the characters from both ends.
strip_chars(s, cs) == RStrip(LStrip(s, cs), cs)

\* str.strip()
strip(s) == strip_chars(s, Whitespace)

\* str.startswith(p)
startswith(s, p) == Len(p) <= Len(s) /\ SubSeq(s, 1, Len(p)) = p

\* p in s (substring)
contains(s, p) == \E i \in 0..(Len(s) - Len(p)) : SubSeq(s, i + 1, i + Len(p)) = p

\* s[n:]
drop(s, n) == SubSeq(s, n + 1, Len(s))

\* str.split(sep) for a one-character separator: the pieces, empty ones kept.
RECURSIVE split_on(_, _)
split_on(s, sep) ==
    IF \E i \in DOMAIN s : s[i] = sep
    THEN LET k == CHOOSE i \in DOMAIN s : s[i] = sep /\ \A j \in 1..(i - 1) : s[j] # sep
         IN  <<SubSeq(s, 1, k - 1)>> \o split_on(drop(s, k), sep)
    ELSE <<s>>

\* str.split(): the maximal runs of non-whitespace characters.
RECURSIVE split(_)
split(s) ==
    LET t == LStrip(s, Whitespace)
    IN  IF t = <<>> THEN <<>>
        ELSE LET ends == {i \in DOMAIN t : t[i] \in Whitespace}
                 k    == IF ends = {} THEN Len(t) + 1
                         ELSE CHOOSE i \in ends : \A j \in ends : i <= j
             IN  <<SubSeq(t, 1, k - 1)>> \o split(drop(t, k - 1))

(***************************************************************************)
(* detect_agentic_case and is_end_command.                                 *)
(***************************************************************************)
idk_phrases ==
  {
    <<"i","d","k">>,
    <<"i"," ","d","o","n","U+2019","t"," ","k","n","o","w">>,
    <<"i"," ","d","o","n","t"," ","k","n","o","w">>,
    <<"d","o","n","'","t"," ","k","n","o","w">>,
    <<"d","o","n","t"," ","k","n","o","w">>,
    <<"n","o"," ","i","d","e","a">>
  }

confused_phrases ==
  <<
    <<"h","e","l","p">>,
    <<"w","h","a","t"," ","d","o"," ","i"," ","d","o">>,
    <<"h","o","w"," ","d","o","e","s"," ","t","h","i","s"," ","w","o","r","k">>,
    <<"i","n","s","t","r","u","c","t","i","o","n","s">>,
    <<"e","x","p","l","a","i","n">>,
    <<"l","o","s","t">>,
    <<"d","o","n","U+2019","t"," ","u","n","d","e","r","s","t","a","n","d">>,
    <<"d","o","n","t"," ","u","n","d","e","r","s","t","a","n","d">>,
    <<"n","o","t"," ","s","u","r","e">>,
    <<"c","o","n","f","u","s","e","d">>
  >>

chatty_phrases ==
  <<
    <<"h","e","l","l","o">>,
    <<"h","i">>,
    <<"w","h","a","t","'","s"," ","y","o","u","r"," ","n","a","m","e">>,
    <<"h","o","w"," ","a","r","e"," ","y","o","u">>,
    <<"g","o","o","d"," ","m","o","r","n","i","n","g">>,
    <<"g","o","o","d"," ","a","f","t","e","r","n","o","o","n">>,
    <<"g","o","o","d"," ","e","v","e","n","i","n","g">>
  >>

Cases == {"EMPTY", "IDK", "TOO_SHORT", "CONFUSED", "CHATTY"}

\* The None that detect_agentic_case returns (a label, not a text).
NoCase == "None"

TooShortTokens == 5

\* A slip: the length of the answer is tested before the IDK phrases.
detect_agentic_case_short_first(answer) ==
    LET a == lower(strip(IF answer = None THEN <<>> ELSE answer))
    IN  IF a = <<>> THEN "EMPTY"
        ELSE IF Len(split(a)) < TooShortTokens THEN "TOO_SHORT"
        ELSE IF a \in idk_phrases THEN "IDK"
        ELSE IF \E i \in DOMAIN confused_phrases : contains(a, confused_phrases[i])
             THEN "CONFUSED"
        ELSE IF \E i \in DOMAIN chatty_phrases : startswith(a, chatty_phrases[i])
             THEN "CHATTY"
        ELSE NoCase

detect_agentic_case(answer) ==
    LET a == lower(strip(IF answer = None THEN <<>> ELSE answer))
    IN  IF a = <<>> THEN "EMPTY"
        ELSE IF a \in idk_phrases THEN "IDK"
        ELSE IF Len(split(a)) < TooShortTokens THEN "TOO_SHORT"
        ELSE IF \E i \in DOMAIN confused_phrases : contains(a, confused_phrases[i])
             THEN "CONFUSED"
        ELSE IF \E i \in DOMAIN chatty_phrases :
                    startswith(a, chatty_phrases[i]) \/ a = chatty_phrases[i]
             THEN "CHATTY"
        ELSE NoCase

end_phrases ==
  {
    <<"e","n","d">>,
    <<"e","n","d"," ","i","n","t","e","r","v","i","e","w">>,
    <<"s","t","o","p">>,
    <<"s","t","o","p"," ","i","n","t","e","r","v","i","e","w">>,
    <<"q","u","i","t">>,
    <<"e","x","i","t">>,
    <<"f","i","n","i","s","h">>,
    <<"f","i","n","i","s","h"," ","i","n","t","e","r","v","i","e","w">>,
    <<"t","e","r","m","i","n","a","t","e">>,
    <<"t","e","r","m","i","n","a","t","e"," ","i","n","t","e","r","v","i","e","w">>
  }

EndPunctuation == {".", "!", "?", ","}

is_end_command(answer) ==
    IF answer = None \/ answer = <<>> THEN FALSE
    ELSE LET text       == lower(strip(answer))
             normalized == strip_chars(text, EndPunctuation)
         IN  text \in end_phrases \/ normalized \in end_phrases

(***************************************************************************)
(* The generation collaborator (llm_clients.groq_generate): a call either  *)
(* raises or returns some text; which text is outside the program's        *)
(* control, so a call's outcome is an input of the step that makes it.     *)
(***************************************************************************)
\* '  '
G_blank ==
    <<" "," ">>

\* 'Q: Why?'
G_prefixed ==
    <<"Q",":"," ","W","h","y","?">>

\* '- Tell me more.\n- Give an example.'
G_long ==
    <<"-"," ","T","e","l","l"," ","m","e"," ","m","o","r","e",".","\n","-"," ","G","i","v",
      "e"," ","a","n"," ","e","x","a","m","p","l","e",".">>

GenTexts == {G_blank, G_prefixed, G_long}

groq_generate ==
    {[raised |-> TRUE, text |-> None]} \cup {[raised |-> FALSE, text |-> t] : t \in GenTexts}

(***************************************************************************)
(* InterviewAgent.  An agent is a record of its fields; role only feeds    *)
(* the prompts.  Each method is an operator from the agent, the inputs and *)
(* the outcome of its generation call to the agent afterwards and what the *)
(* caller sees (the return value or the exception).                        *)
(***************************************************************************)
Interviewer(t) == [role |-> "interviewer", text |-> t]
Candidate(t)   == [role |-> "candidate", text |-> t]

\* InterviewAgent.__init__ once groq_enabled() has let it through.
NewAgent ==
    [history              |-> <<>>,
     followup_count       |-> 0,
     agentic_case_counter |-> [c \in Cases |-> 0]]

followup_prefixes ==
  <<
    <<"F","o","l","l","o","w","-","u","p",":">>,
    <<"F","o","l","l","o","w","-","u","p"," ","q","u","e","s","t","i","o","n",":">>,
    <<"Q",":">>,
    <<"Q","u","e","s","t","i","o","n",":">>
  >>

question_prefixes ==
  <<
    <<"Q","u","e","s","t","i","o","n",":">>,
    <<"Q",":">>,
    <<"H","e","r","e","'","s"," ","a"," ","q","u","e","s","t","i","o","n",":">>,
    <<"H","e","r","e","'","s"," ","t","h","e"," ","q","u","e","s","t","i","o","n",":">>
  >>

\* for prefix in [...]: if q.startswith(prefix): q = q[len(prefix):].strip()
RECURSIVE strip_question_prefixes(_, _)
strip_question_prefixes(q, i) ==
    IF i > Len(question_prefixes) THEN q
    ELSE LET p == question_prefixes[i]
         IN  strip_question_prefixes(
                 IF startswith(q, p) THEN strip(drop(q, Len(p))) ELSE q, i + 1)

\* for prefix in [...]: if followup.lower().startswith(prefix.lower()): ...
RECURSIVE strip_followup_prefixes(_, _)
strip_followup_prefixes(f, i) ==
    IF i > Len(followup_prefixes) THEN f
    ELSE LET p == followup_prefixes[i]
         IN  strip_followup_prefixes(
                 IF startswith(lower(f), lower(p)) THEN strip(drop(f, Len(p))) ELSE f, i + 1)

\* seq[-n:]
last_n(seq, n) == IF Len(seq) <= n THEN seq ELSE SubSeq(seq, Len(seq) - n + 1, Len(seq))

ContextQuestions == 3

\* A slip: the context is drawn from every entry of the history.
prev_questions_with_answers(history) ==
    last_n([i \in DOMAIN history |-> history[i].text], ContextQuestions)

\* The "Previous questions asked" block of get_next_question's prompt.
prev_questions(history) ==
    LET RECURSIVE texts(_)
        texts(i) ==
            IF i > Len(history) THEN <<>>
            ELSE (IF history[i].role = "interviewer" THEN <<history[i].text>> ELSE <<>>)
                 \o texts(i + 1)
    IN  last_n(texts(1), ContextQuestions)

\* q.strip() and the prefix loop, for each text the collaborator may return
\* (evaluated once).
cleaned_question == [t \in GenTexts |-> strip_question_prefixes(strip(t), 1)]

\* A slip: a new question resets the persona counter with the follow-up count.
get_next_question_resets_counter(agent, enabled, g) ==
    IF ~enabled \/ g.raised \/ cleaned_question[g.text] = <<>> THEN
        [agent |-> agent, raised |-> ~enabled \/ g.raised, ret |-> None,
         gen_calls |-> IF enabled THEN 1 ELSE 0, context |-> <<>>]
    ELSE
        [agent |-> [agent EXCEPT !.followup_count = 0,
                                 !.agentic_case_counter = [c \in Cases |-> 0],
                                 !.history = Append(@, Interviewer(cleaned_question[g.text]))],
         raised |-> FALSE, ret |-> cleaned_question[g.text], gen_calls |-> 1,
         context |-> prev_questions(agent.history)]

\* A slip: the follow-up count is not reset for the new question.
get_next_question_no_reset(agent, enabled, g) ==
    IF ~enabled \/ g.raised \/ cleaned_question[g.text] = <<>> THEN
        [agent |-> agent, raised |-> ~enabled \/ g.raised, ret |-> None,
         gen_calls |-> IF enabled THEN 1 ELSE 0, context |-> <<>>]
    ELSE
        [agent |-> [agent EXCEPT !.history = Append(@, Interviewer(cleaned_question[g.text]))],
         raised |-> FALSE, ret |-> cleaned_question[g.text], gen_calls |-> 1,
         context |-> prev_questions(agent.history)]

get_next_question(agent, enabled, g) ==
    IF ~enabled THEN
        [agent |-> agent, raised |-> TRUE, ret |-> None, gen_calls |-> 0,
         context |-> <<>>]
    ELSE IF g.raised THEN
        [agent |-> agent, raised |-> TRUE, ret |-> None, gen_calls |-> 1,
         context |-> prev_questions(agent.history)]
    ELSE
        LET q == cleaned_question[g.text]
        IN  IF q # <<>>
            THEN [agent |-> [agent EXCEPT !.followup_count = 0,
                                          !.history = Append(@, Interviewer(q))],
                  raised |-> FALSE, ret |-> q, gen_calls |-> 1,
                  context |-> prev_questions(agent.history)]
            ELSE [agent |-> agent, raised |-> FALSE, ret |-> None, gen_calls |-> 1,
                  context |-> prev_questions(agent.history)]

MaxFollowups == 2

MinFollowupLen == 10

\* followup.strip() and the prefix loop, for each text the collaborator may
\* return (evaluated once).
cleaned_followup == [t \in GenTexts |-> strip_followup_prefixes(strip(t), 1)]

\* The follow-up step with its limit test and its count update as parameters.
followup_step(agent, enabled, g, at_limit, count_after) ==
    IF ~enabled THEN [agent |-> agent, ret |-> None, gen_calls |-> 0]
    ELSE IF at_limit THEN [agent |-> agent, ret |-> None, gen_calls |-> 0]
    ELSE IF g.raised THEN [agent |-> agent, ret |-> None, gen_calls |-> 1]
    ELSE
        LET followup == cleaned_followup[g.text]
        IN  IF followup # <<>> /\ Len(followup) > MinFollowupLen
            THEN [agent |-> [agent EXCEPT !.followup_count = count_after,
                                          !.history = Append(@, Interviewer(followup))],
                  ret |-> followup, gen_calls |-> 1]
            ELSE [agent |-> agent, ret |-> None, gen_calls |-> 1]

\* A slip: the limit is tested with > for >=.
generate_ai_followup_off_by_one(agent, enabled, question, answer, g) ==
    followup_step(agent, enabled, g, agent.followup_count > MaxFollowups,
                  agent.followup_count + 1)

\* A slip: the count is not incremented.
generate_ai_followup_no_increment(agent, enabled, question, answer, g) ==
    followup_step(agent, enabled, g, agent.followup_count >= MaxFollowups,
                  agent.followup_count)

\* A slip: a follow-up takes the place of the questions in the history.
generate_ai_followup_overwrites_question(agent, enabled, question, answer, g) ==
    IF ~enabled \/ agent.followup_count >= MaxFollowups \/ g.raised THEN
        [agent |-> agent, ret |-> None, gen_calls |-> IF g.raised THEN 1 ELSE 0]
    ELSE
        LET followup == cleaned_followup[g.text]
        IN  IF followup # <<>> /\ Len(followup) > MinFollowupLen
            THEN [agent |-> [agent EXCEPT
                                !.followup_count = @ + 1,
                                !.history = [i \in DOMAIN @ |->
                                                IF @[i].role = "interviewer"
                                                THEN Interviewer(followup) ELSE @[i]]],
                  ret |-> followup, gen_calls |-> 1]
            ELSE [agent |-> agent, ret |-> None, gen_calls |-> 1]

\* A slip: a follow-up too short to be returned is recorded all the same.
generate_ai_followup_appends_unusable(agent, enabled, question, answer, g) ==
    IF ~enabled \/ agent.followup_count >= MaxFollowups \/ g.raised THEN
        [agent |-> agent, ret |-> None, gen_calls |-> IF g.raised THEN 1 ELSE 0]
    ELSE
        LET followup == cleaned_followup[g.text]
            a1 == [agent EXCEPT !.followup_count = @ + 1,
                                !.history = Append(@, Interviewer(followup))]
        IN  [agent |-> a1,
             ret |-> IF Len(followup) > MinFollowupLen THEN followup ELSE None,
             gen_calls |-> 1]

generate_ai_followup(agent, enabled, question, answer, g) ==
    IF ~enabled THEN [agent |-> agent, ret |-> None, gen_calls |-> 0]
    ELSE IF agent.followup_count >= MaxFollowups THEN
        [agent |-> agent, ret |-> None, gen_calls |-> 0]
    ELSE IF g.raised THEN [agent |-> agent, ret |-> None, gen_calls |-> 1]
    ELSE
        LET followup == cleaned_followup[g.text]
        IN  IF followup # <<>> /\ Len(followup) > MinFollowupLen
            THEN [agent |-> [agent EXCEPT !.followup_count = @ + 1,
                                          !.history = Append(@, Interviewer(followup))],
                  ret |-> followup, gen_calls |-> 1]
            ELSE [agent |-> agent, ret |-> None, gen_calls |-> 1]

bullet_markers ==
  <<
    <<"-">>,
    <<"U+2022">>,
    <<"*">>,
    <<"1",".">>,
    <<"2",".">>,
    <<"3",".">>,
    <<"4",".">>,
    <<"5",".">>
  >>

\* for marker in [...]: if line.startswith(marker): line = line[len(marker):].strip()
RECURSIVE strip_markers(_, _)
strip_markers(line, i) ==
    IF i > Len(bullet_markers) THEN line
    ELSE LET m == bullet_markers[i]
         IN  strip_markers(IF startswith(line, m) THEN strip(drop(line, Len(m))) ELSE line,
                           i + 1)

\* The loop over feedback_text.split("\n") that collects the bullets.
RECURSIVE parse_bullets(_)
parse_bullets(lines) ==
    IF lines = <<>> THEN <<>>
    ELSE LET line == strip(Head(lines))
             b    == IF line = <<>> THEN <<>> ELSE strip_markers(line, 1)
         IN  (IF b # <<>> THEN <<b>> ELSE <<>>) \o parse_bullets(Tail(lines))

MaxBullets == 5

\* bullets[:5]
first_n(seq, n) == IF Len(seq) <= n THEN seq ELSE SubSeq(seq, 1, n)

\* The bullets parsed from each text the collaborator may return: <<>> where
\* the code raises "AI feedback generation returned empty result"
\* (evaluated once).
feedback_bullets ==
    [t \in GenTexts |->
        LET feedback_text == strip(t)
            parsed        == parse_bullets(split_on(feedback_text, "\n"))
        IN  IF parsed # <<>> THEN parsed
            ELSE IF feedback_text # <<>> THEN <<feedback_text>> ELSE <<>>]

generate_ai_feedback(enabled, question, answer, g) ==
    IF ~enabled THEN [raised |-> TRUE, bullets |-> <<>>, gen_calls |-> 0]
    ELSE IF g.raised THEN [raised |-> TRUE, bullets |-> <<>>, gen_calls |-> 1]
    ELSE
        LET bullets == feedback_bullets[g.text]
        IN  IF bullets = <<>>
            THEN [raised |-> TRUE, bullets |-> <<>>, gen_calls |-> 1]
            ELSE [raised |-> FALSE, bullets |-> first_n(bullets, MaxBullets), gen_calls |-> 1]

\* "Don't worry, just give your best try\u2014even a short answer helps!"
Nudge_EMPTY ==
    <<"D","o","n","'","t"," ","w","o","r","r","y",","," ","j","u","s","t"," ","g","i","v",
      "e"," ","y","o","u","r"," ","b","e","s","t"," ","t","r","y","U+2014","e","v","e","n",
      " ","a"," ","s","h","o","r","t"," ","a","n","s","w","e","r"," ","h","e","l","p","s",
      "!">>

\* "It's okay if you don't know. Take a guess or try to explain your thinking!"
Nudge_IDK ==
    <<"I","t","'","s"," ","o","k","a","y"," ","i","f"," ","y","o","u"," ","d","o","n","'",
      "t"," ","k","n","o","w","."," ","T","a","k","e"," ","a"," ","g","u","e","s","s"," ",
      "o","r"," ","t","r","y"," ","t","o"," ","e","x","p","l","a","i","n"," ","y","o","u",
      "r"," ","t","h","i","n","k","i","n","g","!">>

\* "Could you add a bit more detail to your answer? You'll get better feedback that way!"
Nudge_TOO_SHORT ==
    <<"C","o","u","l","d"," ","y","o","u"," ","a","d","d"," ","a"," ","b","i","t"," ","m",
      "o","r","e"," ","d","e","t","a","i","l"," ","t","o"," ","y","o","u","r"," ","a","n",
      "s","w","e","r","?"," ","Y","o","u","'","l","l"," ","g","e","t"," ","b","e","t","t",
      "e","r"," ","f","e","e","d","b","a","c","k"," ","t","h","a","t"," ","w","a","y","!">>

\* "Just answer as best you can\u2014there's no penalty for mistakes!"
Nudge_CONFUSED ==
    <<"J","u","s","t"," ","a","n","s","w","e","r"," ","a","s"," ","b","e","s","t"," ","y",
      "o","u"," ","c","a","n","U+2014","t","h","e","r","e","'","s"," ","n","o"," ","p","e",
      "n","a","l","t","y"," ","f","o","r"," ","m","i","s","t","a","k","e","s","!">>

\* "Let's focus on the interview questions; practice will help you improve!"
Nudge_CHATTY ==
    <<"L","e","t","'","s"," ","f","o","c","u","s"," ","o","n"," ","t","h","e"," ","i","n",
      "t","e","r","v","i","e","w"," ","q","u","e","s","t","i","o","n","s",";"," ","p","r",
      "a","c","t","i","c","e"," ","w","i","l","l"," ","h","e","l","p"," ","y","o","u"," ",
      "i","m","p","r","o","v","e","!">>

persona_case_map ==
    [c \in Cases |->
        CASE c = "EMPTY"     -> Nudge_EMPTY
          [] c = "IDK"       -> Nudge_IDK
          [] c = "TOO_SHORT" -> Nudge_TOO_SHORT
          [] c = "CONFUSED"  -> Nudge_CONFUSED
          [] c = "CHATTY"    -> Nudge_CHATTY]

\* ' (Try to give an answer to keep the practice going!)'
EscalationSuffix ==
    <<" ","(","T","r","y"," ","t","o"," ","g","i","v","e"," ","a","n"," ","a","n","s","w",
      "e","r"," ","t","o"," ","k","e","e","p"," ","t","h","e"," ","p","r","a","c","t","i",
      "c","e"," ","g","o","i","n","g","!",")">>

\* 'Interview ended at your request.'
EndedFeedback ==
    <<"I","n","t","e","r","v","i","e","w"," ","e","n","d","e","d"," ","a","t"," ","y","o",
      "u","r"," ","r","e","q","u","e","s","t",".">>

\* 'Provide a more complete answer to get valuable feedback!'
PersonaFeedback ==
    <<"P","r","o","v","i","d","e"," ","a"," ","m","o","r","e"," ","c","o","m","p","l","e",
      "t","e"," ","a","n","s","w","e","r"," ","t","o"," ","g","e","t"," ","v","a","l","u",
      "a","b","l","e"," ","f","e","e","d","b","a","c","k","!">>

EscalatingCases == {"CONFUSED", "CHATTY"}

\* agentic_case_counter[persona_case] > EscalateAfter appends the suffix.
EscalateAfter == 1

\* A slip: the suffix is appended from the first occurrence on (>= for >).
persona_turn_escalates_at_once(agent, persona_case) ==
    LET counter == [agent.agentic_case_counter EXCEPT ![persona_case] = @ + 1]
        clarifying == persona_case_map[persona_case]
    IN  [agent |-> [agent EXCEPT !.agentic_case_counter = counter],
         followup |->
            IF persona_case \in EscalatingCases /\ counter[persona_case] >= EscalateAfter
            THEN clarifying \o EscalationSuffix
            ELSE clarifying]

\* The persona branch of process_answer: the counter after the turn and the nudge.
persona_turn(agent, persona_case) ==
    LET counter == [agent.agentic_case_counter EXCEPT ![persona_case] = @ + 1]
        clarifying == persona_case_map[persona_case]
    IN  [agent |-> [agent EXCEPT !.agentic_case_counter = counter],
         followup |->
            IF persona_case \in EscalatingCases /\ counter[persona_case] > EscalateAfter
            THEN clarifying \o EscalationSuffix
            ELSE clarifying]

\* 'QUIT!'
A_quit ==
    <<"Q","U","I","T","!">>

\* ''
A_empty ==
    <<>>

\* 'idk'
A_idk ==
    <<"i","d","k">>

\* 'quitting'
A_short ==
    <<"q","u","i","t","t","i","n","g">>

\* 'Sorry I am lost here'
A_confused ==
    <<"S","o","r","r","y"," ","I"," ","a","m"," ","l","o","s","t"," ","h","e","r","e">>

\* 'Hi there how are you'
A_chatty ==
    <<"H","i"," ","t","h","e","r","e"," ","h","o","w"," ","a","r","e"," ","y","o","u">>

\* 'We cache reads in memory'
A_normal ==
    <<"W","e"," ","c","a","c","h","e"," ","r","e","a","d","s"," ","i","n"," ","m","e","m",
      "o","r","y">>

Answers == {A_quit, A_empty, A_idk, A_short, A_confused, A_chatty, A_normal}

\* is_end_command and detect_agentic_case of each answer of the model
\* (evaluated once).
end_command == [a \in Answers |-> is_end_command(a)]

agentic_case == [a \in Answers |-> detect_agentic_case(a)]

\* What a call returns: the values of the dict it returns (finished is FALSE
\* where the dict has no such key), or raised; with the generation calls it
\* made, the persona case it detected and the producer of its feedback.

\* A slip: the end command closes the session by clearing its history.
end_turn_clears_history(agent, answer) ==
    [agent |-> [agent EXCEPT !.history = <<Candidate(answer)>>],
     raised |-> FALSE, followup |-> None, feedback |-> <<EndedFeedback>>,
     finished |-> TRUE, gen_calls |-> 0, persona_case |-> NoCase,
     feedback_by |-> "end"]

\* The end-command branch of process_answer.
end_turn(agent, answer) ==
    [agent |-> [agent EXCEPT !.history = Append(@, Candidate(answer))],
     raised |-> FALSE, followup |-> None, feedback |-> <<EndedFeedback>>,
     finished |-> TRUE, gen_calls |-> 0, persona_case |-> NoCase,
     feedback_by |-> "end"]

\* A slip: the nudge is recorded in the history like a follow-up.
persona_result_appends_nudge(a1, persona_case) ==
    LET p == persona_turn(a1, persona_case)
    IN  [agent |-> [p.agent EXCEPT !.history = Append(@, Interviewer(p.followup))],
         raised |-> FALSE, followup |-> p.followup, feedback |-> <<PersonaFeedback>>,
         finished |-> FALSE, gen_calls |-> 0, persona_case |-> persona_case,
         feedback_by |-> "persona"]

\* A slip: the persona branch returns its nudge in no field of the result.
persona_result_without_followup(a1, persona_case) ==
    LET p == persona_turn(a1, persona_case)
    IN  [agent |-> p.agent,
         raised |-> FALSE, followup |-> None, feedback |-> <<PersonaFeedback>>,
         finished |-> FALSE, gen_calls |-> 0, persona_case |-> persona_case,
         feedback_by |-> "persona"]

\* The persona branch of process_answer, the answer already in the history.
persona_result(a1, persona_case) ==
    LET p == persona_turn(a1, persona_case)
    IN  [agent |-> p.agent,
         raised |-> FALSE, followup |-> p.followup, feedback |-> <<PersonaFeedback>>,
         finished |-> FALSE, gen_calls |-> 0, persona_case |-> persona_case,
         feedback_by |-> "persona"]

\* A slip: an exception of the follow-up generation is let through.
normal_turn_followup_raises(a1, enabled, answer, question_text, gfb, gfu) ==
    LET fb == generate_ai_feedback(enabled, question_text, answer, gfb)
        fu == generate_ai_followup(a1, enabled, question_text, answer, gfu)
    IN  IF fb.raised \/ (fu.gen_calls = 1 /\ gfu.raised) THEN
            [agent |-> a1,
             raised |-> TRUE, followup |-> None, feedback |-> <<>>,
             finished |-> FALSE, gen_calls |-> fb.gen_calls,
             persona_case |-> NoCase, feedback_by |-> "none"]
        ELSE
            [agent |-> fu.agent,
             raised |-> FALSE, followup |-> fu.ret, feedback |-> fb.bullets,
             finished |-> FALSE, gen_calls |-> fb.gen_calls + fu.gen_calls,
             persona_case |-> NoCase, feedback_by |-> "groq"]

\* The normal path of process_answer, the answer already in the history:
\* _generate_ai_feedback, whose exception propagates, then _generate_ai_followup.
normal_turn(a1, enabled, answer, question_text, gfb, gfu) ==
    LET fb == generate_ai_feedback(enabled, question_text, answer, gfb)
    IN  IF fb.raised THEN
            [agent |-> a1,
             raised |-> TRUE, followup |-> None, feedback |-> <<>>,
             finished |-> FALSE, gen_calls |-> fb.gen_calls,
             persona_case |-> NoCase, feedback_by |-> "none"]
        ELSE
            LET fu == generate_ai_followup(a1, enabled, question_text, answer, gfu)
            IN  [agent |-> fu.agent,
                 raised |-> FALSE, followup |-> fu.ret, feedback |-> fb.bullets,
                 finished |-> FALSE, gen_calls |-> fb.gen_calls + fu.gen_calls,
                 persona_case |-> NoCase, feedback_by |-> "groq"]

\* A slip: the persona case is looked for before the end command.
process_answer_persona_first(agent, enabled, answer, question_text, gfb, gfu) ==
    LET a1 == [agent EXCEPT !.history = Append(@, Candidate(answer))]
    IN  IF agentic_case[answer] # NoCase THEN persona_result(a1, agentic_case[answer])
        ELSE IF end_command[answer] THEN end_turn(agent, answer)
        ELSE normal_turn(a1, enabled, answer, question_text, gfb, gfu)

process_answer(agent, enabled, answer, question_text, gfb, gfu) ==
    IF end_command[answer] THEN end_turn(agent, answer)
    ELSE
        LET a1 == [agent EXCEPT !.history = Append(@, Candidate(answer))]
            persona_case == agentic_case[answer]
        IN  IF persona_case # NoCase THEN persona_result(a1, persona_case)
            ELSE normal_turn(a1, enabled, answer, question_text, gfb, gfu)

(***************************************************************************)
(* The session driven through its methods, in any order (smoke_test.py     *)
(* drives it this way).                                                    *)
(***************************************************************************)
\* kinds after a call that took the history from old to new: get_next_question
\* appends main questions; process_answer appends the answer and then, through
\* _generate_ai_followup, a follow-up.
AppendedKinds(old, new, op) ==
    [i \in 1..(Len(new) - Len(old)) |->
        IF op = "get_next_question" THEN "main"
        ELSE IF i = 1 THEN "candidate" ELSE "followup"]

(***************************************************************************)
(* main.py: the Streamlit handlers.  A handler is an operator from the     *)
(* session state (agent, messages), the input and the outcomes of the      *)
(* generation calls to the session state it leaves, with the method calls  *)
(* it made.  st.rerun() ends the script run; an exception is caught by the *)
(* handler's except clause and shown (error), the state staying as the     *)
(* statements before it left it.                                           *)
(***************************************************************************)
\* 'Failed to generate question.'
FailedToGenerate ==
    <<"F","a","i","l","e","d"," ","t","o"," ","g","e","n","e","r","a","t","e"," ","q","u",
      "e","s","t","i","o","n",".">>

\* 'Interview ended. Thank you!'
InterviewEnded ==
    <<"I","n","t","e","r","v","i","e","w"," ","e","n","d","e","d","."," ","T","h","a","n",
      "k"," ","y","o","u","!">>

\* '\U0001f389 Interview complete! Thank you for practicing.'
InterviewComplete ==
    <<"U+1F389"," ","I","n","t","e","r","v","i","e","w"," ","c","o","m","p","l","e","t","e",
      "!"," ","T","h","a","n","k"," ","y","o","u"," ","f","o","r"," ","p","r","a","c","t",
      "i","c","i","n","g",".">>

\* ' idk\n'
A_idk_typed ==
    <<" ","i","d","k","\n">>

Message(who, text) == [who |-> who, text |-> text]

\* A method call on instance id, for the record of the handler: whether it
\* raised and, of a process_answer result, finished, followup and the case.
Call(op, id, r) ==
    [op |-> op, id |-> id, raised |-> r.raised, finished |-> r.finished,
     followup |-> Truthy(r.followup), persona_case |-> r.persona_case]

\* The "Start New Interview" button.
start_new_interview(st, enabled, g) ==
    IF ~enabled THEN
        \* InterviewAgent(role=role) raises: nothing was assigned.
        [st |-> st, calls |-> <<>>, error |-> TRUE, constructed |-> FALSE,
         kinds |-> <<>>]
    ELSE
        LET r == get_next_question(NewAgent, enabled, g)
            c == <<Call("get_next_question", st.agent_id + 1,
                        [raised |-> r.raised, finished |-> FALSE,
                         followup |-> None, persona_case |-> NoCase])>>
            s1 == [st EXCEPT !.agent = r.agent, !.alive = TRUE, !.agent_id = @ + 1,
                             !.messages = <<>>]
            k  == AppendedKinds(NewAgent.history, r.agent.history, "get_next_question")
        IN  IF r.raised
            THEN [st |-> s1, calls |-> c, error |-> TRUE, constructed |-> TRUE, kinds |-> k]
            ELSE [st |-> [s1 EXCEPT !.messages =
                            <<IF Truthy(r.ret) THEN Message("Interviewer", r.ret)
                              ELSE Message("System", FailedToGenerate)>>],
                  calls |-> c, error |-> FALSE, constructed |-> TRUE, kinds |-> k]

\* for who, msg_text in reversed(messages): if who == "Interviewer": ...
last_question(messages) ==
    LET asked == {i \in DOMAIN messages : messages[i].who = "Interviewer"}
    IN  IF asked = {} THEN None
        ELSE messages[CHOOSE i \in asked : \A j \in asked : j <= i].text

\* if fb: messages.append(("Feedback", fb))
with_feedback(messages, feedback) ==
    IF feedback # <<>> THEN Append(messages, Message("Feedback", feedback)) ELSE messages

\* A slip: the finished branch leaves the agent in the session state.
finished_branch_keeps_agent(st, r, msgs) ==
    [st EXCEPT !.agent = r.agent,
               !.messages = Append(with_feedback(msgs, r.feedback),
                                   Message("Interviewer", InterviewEnded))]

\* if result.get("finished"): the feedback, the closing message, agent = None.
finished_branch(st, r, msgs) ==
    [st EXCEPT !.agent = NewAgent, !.alive = FALSE,
               !.messages = Append(with_feedback(msgs, r.feedback),
                                   Message("Interviewer", InterviewEnded))]

\* The answers typed into the form, and answer.strip() of each (evaluated once).
UIAnswers == {A_empty, A_quit, A_idk_typed, A_confused, A_normal}

stripped == [a \in UIAnswers |-> strip(a)]

\* The answer form's submit button; the form exists while there is an agent.
\* kinds: what the handler's calls appended to the agent's history.
submit_answer(st, enabled, typed, gfb, gfu, gq) ==
    LET answer == stripped[typed]
        question == last_question(st.messages)
    IN  IF answer = <<>> \/ question = None THEN
            \* "Please enter an answer" / "No active question": a warning only.
            [st |-> st, calls |-> <<>>, error |-> FALSE, question |-> question,
             kinds |-> <<>>]
        ELSE
            LET r  == process_answer(st.agent, enabled, answer, question, gfb, gfu)
                c1 == <<Call("process_answer", st.agent_id, r)>>
                k1 == AppendedKinds(st.agent.history, r.agent.history, "process_answer")
                msgs1 == Append(st.messages, Message("You", answer))
                msgs2 == with_feedback(msgs1, r.feedback)
            IN  IF r.raised THEN
                    [st |-> [st EXCEPT !.agent = r.agent], calls |-> c1, error |-> TRUE,
                     question |-> question, kinds |-> k1]
                ELSE IF r.finished THEN
                    [st |-> finished_branch(st, r, msgs1), calls |-> c1, error |-> FALSE,
                     question |-> question, kinds |-> k1]
                ELSE IF Truthy(r.followup) THEN
                    [st |-> [st EXCEPT !.agent = r.agent,
                                       !.messages = Append(msgs2, Message("Interviewer",
                                                                          r.followup))],
                     calls |-> c1, error |-> FALSE, question |-> question, kinds |-> k1]
                ELSE
                    LET q  == get_next_question(r.agent, enabled, gq)
                        c2 == Append(c1, Call("get_next_question", st.agent_id,
                                              [raised |-> q.raised, finished |-> FALSE,
                                               followup |-> None,
                                               persona_case |-> NoCase]))
                        k2 == k1 \o AppendedKinds(r.agent.history, q.agent.history,
                                                  "get_next_question")
                    IN  IF q.raised THEN
                            [st |-> [st EXCEPT !.agent = q.agent, !.messages = msgs2],
                             calls |-> c2, error |-> TRUE, question |-> question,
                             kinds |-> k2]
                        ELSE
                            [st |-> [st EXCEPT
                                        !.agent = q.agent,
                                        !.messages =
                                            Append(msgs2, Message("Interviewer",
                                                IF Truthy(q.ret) THEN q.ret
                                                ELSE InterviewComplete))],
                             calls |-> c2, error |-> FALSE, question |-> question,
                             kinds |-> k2]

(***************************************************************************)
(* feedback_engine.py: the rule-based scores and their feedback bullets.   *)
(* A rubric is a dict: a function from its keys to their values.           *)
(***************************************************************************)
\* {}
EmptyDict == [k \in {} |-> 0]

\* d.get(key, default)
get(d, key, default) == IF key \in DOMAIN d THEN d[key] ELSE default

\* load_rubric(): the rubric read from sample_questions/rubric.json, or an
\* exception (FileNotFoundError, ValueError) where the file is missing or is
\* not JSON.
LoadFailed == [raised |-> TRUE, rubric |-> EmptyDict]

Loaded(rubric) == [raised |-> FALSE, rubric |-> rubric]

\* The rubric argument left out (rubric=None).
NoRubric == [none |-> TRUE]

DefaultShortAnswerTokens == 12

DefaultGoodDepthMatches == 2

LongAnswerTokens == 40

FewTokens == 5

\* def clamp(x): return max(1, min(5, int(x)))
clamp(x) == IF x < 1 THEN 1 ELSE IF x > 5 THEN 5 ELSE x

\* sum(1 for kw in depth_keywords if kw.lower() in answer.lower())
keyword_matches(answer, depth_keywords) ==
    Cardinality({i \in DOMAIN depth_keywords :
                    contains(lower(answer), lower(depth_keywords[i]))})

FloorScores == [communication |-> 1, depth |-> 1, relevance |-> 1]

\* A slip: the relevance bonus grows with the matches and nothing is clamped.
simple_scores_unclamped(answer, rubric, loaded) ==
    IF rubric = NoRubric /\ loaded.raised THEN
        [raised |-> TRUE, scores |-> EmptyDict, n_tokens |-> 0, matches |-> 0]
    ELSE IF answer = None \/ strip(answer) = <<>> THEN
        [raised |-> FALSE, scores |-> FloorScores, n_tokens |-> 0, matches |-> 0]
    ELSE
        LET rb == IF rubric = NoRubric THEN loaded.rubric ELSE rubric
            n_tokens == Len(split(answer))
            matches == keyword_matches(answer, get(rb, "depth_keywords", <<>>))
        IN  [raised |-> FALSE,
             scores |-> [communication |-> IF n_tokens < LongAnswerTokens THEN 4 ELSE 5,
                         depth |-> IF matches >= 1 THEN 3 ELSE 1,
                         relevance |-> 3 + matches],
             n_tokens |-> n_tokens, matches |-> matches]

\* A slip: the blank answer is looked at before the rubric is loaded.
simple_scores_floor_first(answer, rubric, loaded) ==
    IF answer = None \/ strip(answer) = <<>> THEN
        [raised |-> FALSE, scores |-> FloorScores, n_tokens |-> 0, matches |-> 0]
    ELSE
        [raised |-> rubric = NoRubric /\ loaded.raised, scores |-> EmptyDict,
         n_tokens |-> 0, matches |-> 0]

\* A slip: an answer of LongAnswerTokens or more is marked down as rambling.
simple_scores_long_marked_down(answer, rubric, loaded) ==
    IF rubric = NoRubric /\ loaded.raised THEN
        [raised |-> TRUE, scores |-> EmptyDict, n_tokens |-> 0, matches |-> 0]
    ELSE IF answer = None \/ strip(answer) = <<>> THEN
        [raised |-> FALSE, scores |-> FloorScores, n_tokens |-> 0, matches |-> 0]
    ELSE
        LET rb == IF rubric = NoRubric THEN loaded.rubric ELSE rubric
            n_tokens == Len(split(strip(answer)))
            thresholds == get(rb, "thresholds", EmptyDict)
            short_answer_tokens ==
                get(thresholds, "short_answer_tokens", DefaultShortAnswerTokens)
            comm == IF n_tokens >= short_answer_tokens
                    THEN (IF n_tokens < LongAnswerTokens THEN 4 ELSE 3)
                    ELSE (IF n_tokens >= FewTokens THEN 2 ELSE 1)
            matches == keyword_matches(answer, get(rb, "depth_keywords", <<>>))
        IN  [raised |-> FALSE,
             scores |-> [communication |-> comm,
                         depth |-> IF matches >= 1 THEN 3 ELSE 1,
                         relevance |-> IF n_tokens < short_answer_tokens THEN 2 ELSE 3],
             n_tokens |-> n_tokens, matches |-> matches]

\* simple_scores(answer, rubric), loaded being what load_rubric() gives if it
\* is called; with the scores, the token and match counts they come from.
simple_scores(answer, rubric, loaded) ==
    IF rubric = NoRubric /\ loaded.raised THEN
        [raised |-> TRUE, scores |-> EmptyDict, n_tokens |-> 0, matches |-> 0]
    ELSE IF answer = None \/ strip(answer) = <<>> THEN
        [raised |-> FALSE, scores |-> FloorScores, n_tokens |-> 0, matches |-> 0]
    ELSE
        LET rb == IF rubric = NoRubric THEN loaded.rubric ELSE rubric
            n_tokens == Len(split(strip(answer)))
            thresholds == get(rb, "thresholds", EmptyDict)
            short_answer_tokens ==
                get(thresholds, "short_answer_tokens", DefaultShortAnswerTokens)
            good_depth_matches ==
                get(thresholds, "good_depth_matches", DefaultGoodDepthMatches)
            comm == IF n_tokens >= short_answer_tokens
                    THEN (IF n_tokens < LongAnswerTokens THEN 4 ELSE 5)
                    ELSE (IF n_tokens >= FewTokens THEN 2 ELSE 1)
            matches == keyword_matches(answer, get(rb, "depth_keywords", <<>>))
            depth == IF matches >= good_depth_matches + 2 THEN 5
                     ELSE IF matches >= good_depth_matches THEN 4
                     ELSE IF matches >= 1 THEN 3
                     ELSE 1
            relevance0 == IF n_tokens < short_answer_tokens THEN 2 ELSE 3
            relevance == IF matches >= 1
                         THEN (IF relevance0 + 1 > 5 THEN 5 ELSE relevance0 + 1)
                         ELSE relevance0
        IN  [raised |-> FALSE,
             scores |-> [communication |-> clamp(comm), depth |-> clamp(depth),
                         relevance |-> clamp(relevance)],
             n_tokens |-> n_tokens, matches |-> matches]

\* 'Try structuring answers with STAR (Situation, Task, Action, Result).'
DefaultStructureTip ==
    <<"T","r","y"," ","s","t","r","u","c","t","u","r","i","n","g"," ","a","n","s","w","e",
      "r","s"," ","w","i","t","h"," ","S","T","A","R"," ","(","S","i","t","u","a","t","i",
      "o","n",","," ","T","a","s","k",","," ","A","c","t","i","o","n",","," ","R","e","s",
      "u","l","t",")",".">>

\* 'Add concrete technical details: components, trade-offs, and numbers.'
DefaultDetailTip ==
    <<"A","d","d"," ","c","o","n","c","r","e","t","e"," ","t","e","c","h","n","i","c","a",
      "l"," ","d","e","t","a","i","l","s",":"," ","c","o","m","p","o","n","e","n","t","s",
      ","," ","t","r","a","d","e","-","o","f","f","s",","," ","a","n","d"," ","n","u","m",
      "b","e","r","s",".">>

\* 'Keep answers focused on the asked problem; brief examples are fine.'
DefaultOnTopicTip ==
    <<"K","e","e","p"," ","a","n","s","w","e","r","s"," ","f","o","c","u","s","e","d"," ",
      "o","n"," ","t","h","e"," ","a","s","k","e","d"," ","p","r","o","b","l","e","m",";",
      " ","b","r","i","e","f"," ","e","x","a","m","p","l","e","s"," ","a","r","e"," ","f",
      "i","n","e",".">>

\* 'Strong communication \u2014 clear and structured.'
StrongCommunication ==
    <<"S","t","r","o","n","g"," ","c","o","m","m","u","n","i","c","a","t","i","o","n"," ",
      "U+2014"," ","c","l","e","a","r"," ","a","n","d"," ","s","t","r","u","c","t","u","r",
      "e","d",".">>

\* 'Good clarity; could benefit from slightly more structure (use STAR method).'
GoodClarity ==
    <<"G","o","o","d"," ","c","l","a","r","i","t","y",";"," ","c","o","u","l","d"," ","b",
      "e","n","e","f","i","t"," ","f","r","o","m"," ","s","l","i","g","h","t","l","y"," ",
      "m","o","r","e"," ","s","t","r","u","c","t","u","r","e"," ","(","u","s","e"," ","S",
      "T","A","R"," ","m","e","t","h","o","d",")",".">>

\* 'Good technical depth \u2014 strong use of concepts and trade-offs.'
GoodDepth ==
    <<"G","o","o","d"," ","t","e","c","h","n","i","c","a","l"," ","d","e","p","t","h"," ",
      "U+2014"," ","s","t","r","o","n","g"," ","u","s","e"," ","o","f"," ","c","o","n","c",
      "e","p","t","s"," ","a","n","d"," ","t","r","a","d","e","-","o","f","f","s",".">>

\* 'Some technical details present; add more specifics like components or metrics.'
SomeDetails ==
    <<"S","o","m","e"," ","t","e","c","h","n","i","c","a","l"," ","d","e","t","a","i","l",
      "s"," ","p","r","e","s","e","n","t",";"," ","a","d","d"," ","m","o","r","e"," ","s",
      "p","e","c","i","f","i","c","s"," ","l","i","k","e"," ","c","o","m","p","o","n","e",
      "n","t","s"," ","o","r"," ","m","e","t","r","i","c","s",".">>

\* 'Answer was highly relevant and on point.'
HighlyRelevant ==
    <<"A","n","s","w","e","r"," ","w","a","s"," ","h","i","g","h","l","y"," ","r","e","l",
      "e","v","a","n","t"," ","a","n","d"," ","o","n"," ","p","o","i","n","t",".">>

\* 'Mostly relevant \u2014 try tying each statement directly to the question.'
MostlyRelevant ==
    <<"M","o","s","t","l","y"," ","r","e","l","e","v","a","n","t"," ","U+2014"," ","t","r",
      "y"," ","t","y","i","n","g"," ","e","a","c","h"," ","s","t","a","t","e","m","e","n",
      "t"," ","d","i","r","e","c","t","l","y"," ","t","o"," ","t","h","e"," ","q","u","e",
      "s","t","i","o","n",".">>

DefaultScore == 3

Affirmed == 4

\* A slip: a score of DefaultScore is affirmed as well.
bullet_affirms_from_three(score, affirmation, suggestion, tip) ==
    IF score >= DefaultScore THEN affirmation ELSE tip

\* One dimension's bullet: the affirmation, the suggestion or the tip.
bullet(score, affirmation, suggestion, tip) ==
    IF score >= Affirmed THEN affirmation
    ELSE IF score = DefaultScore THEN suggestion
    ELSE tip

\* A slip: the tips of the rubric are not looked up.
scores_to_feedback_default_tips(scores, rubric, loaded) ==
    IF rubric = NoRubric /\ loaded.raised THEN [raised |-> TRUE, bullets |-> <<>>]
    ELSE
        [raised |-> FALSE,
         bullets |-> <<bullet(get(scores, "communication", DefaultScore),
                              StrongCommunication, GoodClarity, DefaultStructureTip),
                       bullet(get(scores, "depth", DefaultScore),
                              GoodDepth, SomeDetails, DefaultDetailTip),
                       bullet(get(scores, "relevance", DefaultScore),
                              HighlyRelevant, MostlyRelevant, DefaultOnTopicTip)>>]

\* scores_to_feedback(scores, rubric), loaded being what load_rubric() gives
\* if it is called.
scores_to_feedback(scores, rubric, loaded) ==
    IF rubric = NoRubric /\ loaded.raised THEN [raised |-> TRUE, bullets |-> <<>>]
    ELSE
        LET rb == IF rubric = NoRubric THEN loaded.rubric ELSE rubric
            comm == get(scores, "communication", DefaultScore)
            depth == get(scores, "depth", DefaultScore)
            rel == get(scores, "relevance", DefaultScore)
            messages == get(rb, "messages", EmptyDict)
            structure_tip == get(messages, "structure_tip", DefaultStructureTip)
            detail_tip == get(messages, "detail_tip", DefaultDetailTip)
            on_topic_tip == get(messages, "on_topic_tip", DefaultOnTopicTip)
        IN  [raised |-> FALSE,
             bullets |-> <<bullet(comm, StrongCommunication, GoodClarity, structure_tip),
                           bullet(depth, GoodDepth, SomeDetails, detail_tip),
                           bullet(rel, HighlyRelevant, MostlyRelevant, on_topic_tip)>>]

(***************************************************************************)
(* llm_clients.py: groq_generate with its two transports.  A Python value  *)
(* (a JSON value being one) is a record of its type, its value (a dict as  *)
(* the sequence of its key-value pairs, an object as the record of its     *)
(* attributes) and str() of it.                                            *)
(***************************************************************************)
PyStr(text) == [type |-> "str", value |-> text, repr |-> text]

\* key in d, d[key] and d.get(key, "") of a dict d
has_key(d, key) == \E i \in DOMAIN d.value : d.value[i][1] = key

item(d, key) == d.value[CHOOSE i \in DOMAIN d.value : d.value[i][1] = key][2]

get_text(d, key) == IF has_key(d, key) THEN item(d, key) ELSE PyStr(<<>>)

\* hasattr(o, name)
hasattr(o, name) == o.type = "object" /\ name \in DOMAIN o.value

Key_choices ==
    <<"c","h","o","i","c","e","s">>

Key_message ==
    <<"m","e","s","s","a","g","e">>

Key_content ==
    <<"c","o","n","t","e","n","t">>

Key_text ==
    <<"t","e","x","t">>

\* json.dumps of a str: quoted, with ", \ and the newline escaped.
JsonChar(c) ==
    IF c = "\"" THEN <<"\\", "\"">>
    ELSE IF c = "\\" THEN <<"\\", "\\">>
    ELSE IF c = "\n" THEN <<"\\", "n">>
    ELSE <<c>>

RECURSIVE json_string(_)
json_string(text) ==
    IF text = <<>> THEN <<>> ELSE JsonChar(Head(text)) \o json_string(Tail(text))

\* json.dumps(data), and the items of a list or dict from the i-th on.
RECURSIVE json_dumps(_), dumps_items(_, _)
json_dumps(data) ==
    IF data.type = "str" THEN <<"\"">> \o json_string(data.value) \o <<"\"">>
    ELSE IF data.type = "NoneType" THEN <<"n", "u", "l", "l">>
    ELSE IF data.type = "list" THEN <<"[">> \o dumps_items(data, 1) \o <<"]">>
    ELSE <<"{">> \o dumps_items(data, 1) \o <<"}">>

dumps_items(data, i) ==
    IF i > Len(data.value) THEN <<>>
    ELSE (IF data.type = "list" THEN json_dumps(data.value[i])
          ELSE <<"\"">> \o json_string(data.value[i][1]) \o <<"\"", ":", " ">>
               \o json_dumps(data.value[i][2]))
         \o (IF i < Len(data.value) THEN <<",", " ">> ELSE <<>>)
         \o dumps_items(data, i + 1)

\* resp.json() of a body that is not JSON: it raises.
NotJSON == [type |-> "ValueError", value |-> <<>>, repr |-> <<>>]

\* What a transport gives: an exception or a text, after the attempts made.
Raised(attempts) == [raised |-> TRUE, text |-> None, attempts |-> attempts]

Returned(text, attempts) == [raised |-> FALSE, text |-> text, attempts |-> attempts]

\* content.strip(): an AttributeError unless content is a str.
content_text(content, attempts) ==
    IF content.type = "str" THEN Returned(strip(content.value), attempts)
    ELSE Raised(attempts)

\* _groq_http_generate, from the posted request on: http is the answer of the
\* service to the one requests.post.
http_reply_text(http) ==
    LET data == http.json
        attempts == <<"http">>
        dumped == Returned(json_dumps(data), attempts)
    IN  IF ~http.reachable THEN Raised(attempts)
        ELSE IF http.status_code = 401 \/ http.status_code = 403 THEN Raised(attempts)
        ELSE IF http.status_code >= 400 THEN Raised(attempts)
        ELSE IF data = NotJSON THEN Returned(http.text, attempts)
        ELSE IF data.type \notin {"dict", "list", "str"} THEN Raised(attempts)
        ELSE IF data.type = "list" THEN
            IF \E i \in DOMAIN data.value :
                  data.value[i].type = "str" /\ data.value[i].value = Key_choices
            THEN Raised(attempts) ELSE dumped
        ELSE IF data.type = "str" THEN
            IF contains(data.value, Key_choices) THEN Raised(attempts) ELSE dumped
        ELSE IF ~has_key(data, Key_choices) THEN dumped
        ELSE
            LET choices == item(data, Key_choices)
            IN  IF choices.type \notin {"dict", "list", "str"} THEN Raised(attempts)
                ELSE IF Len(choices.value) = 0 THEN dumped
                ELSE IF choices.type = "dict" THEN Raised(attempts)
                ELSE
                    LET c0 == IF choices.type = "list" THEN choices.value[1]
                              ELSE PyStr(<<choices.value[1]>>)
                    IN  IF c0.type # "dict" THEN dumped
                        ELSE IF has_key(c0, Key_message)
                                /\ item(c0, Key_message).type = "dict"
                        THEN content_text(get_text(item(c0, Key_message), Key_content),
                                          attempts)
                        ELSE IF has_key(c0, Key_text)
                        THEN content_text(get_text(c0, Key_text), attempts)
                        ELSE dumped

\* _groq_http_generate(prompt)
groq_http_generate(enabled, http) ==
    IF ~enabled THEN Raised(<<>>) ELSE http_reply_text(http)

\* The parsing of the SDK's reply: whatever goes wrong in it, str(resp).
sdk_reply_text(resp) ==
    LET fallback == strip(resp.repr)
        text_of(content) ==
            IF content.type = "str" THEN strip(content.value) ELSE fallback
    IN  IF ~hasattr(resp, "choices") THEN fallback
        ELSE IF resp.value["choices"].type \notin {"list", "str"} THEN fallback
        ELSE IF Len(resp.value["choices"].value) = 0 THEN fallback
        ELSE
            LET choice0 == IF resp.value["choices"].type = "list"
                           THEN resp.value["choices"].value[1]
                           ELSE PyStr(<<resp.value["choices"].value[1]>>)
            IN  IF hasattr(choice0, "message") THEN
                    LET msg == choice0.value["message"]
                    IN  IF msg.type = "dict" THEN text_of(get_text(msg, Key_content))
                        ELSE IF hasattr(msg, "content") THEN text_of(msg.value["content"])
                        ELSE strip(msg.repr)
                ELSE IF choice0.type = "dict" THEN
                    IF has_key(choice0, Key_message)
                       /\ item(choice0, Key_message).type = "dict"
                    THEN text_of(get_text(item(choice0, Key_message), Key_content))
                    ELSE IF has_key(choice0, Key_text)
                    THEN text_of(get_text(choice0, Key_text))
                    ELSE strip(choice0.repr)
                ELSE strip(choice0.repr)

\* _init_sdk_client(): whether it returns a client.  sdk_client tells whether
\* the module holds one from an earlier call, importable whether the groq
\* package can be imported and its client constructed.
init_sdk_client(sdk_client, enabled, importable) ==
    IF sdk_client THEN TRUE
    ELSE IF ~enabled THEN FALSE
    ELSE importable

\* A slip: the HTTP request is made again when it has failed.
groq_generate_call_retries_http(enabled, sdk_client, importable, sdk, http) ==
    IF ~enabled THEN Raised(<<>>)
    ELSE
        LET first == IF init_sdk_client(sdk_client, enabled, importable)
                     THEN (IF sdk.raised THEN Raised(<<"sdk">>)
                           ELSE Returned(sdk_reply_text(sdk.resp), <<"sdk">>))
                     ELSE Raised(<<>>)
            second == http_reply_text(http)
        IN  IF ~first.raised THEN first
            ELSE [second EXCEPT !.attempts = IF second.raised
                                             THEN first.attempts \o @ \o @
                                             ELSE first.attempts \o @]

\* groq_generate(prompt): sdk is what client.chat.completions.create does if
\* it is called, http what the service answers to requests.post if it is.
groq_generate_call(enabled, sdk_client, importable, sdk, http) ==
    IF ~enabled THEN Raised(<<>>)
    ELSE IF init_sdk_client(sdk_client, enabled, importable) THEN
        IF ~sdk.raised THEN Returned(sdk_reply_text(sdk.resp), <<"sdk">>)
        ELSE
            LET fallen_back == groq_http_generate(enabled, http)
            IN  [fallen_back EXCEPT !.attempts = <<"sdk">> \o @]
    ELSE groq_http_generate(enabled, http)

\* A call of the SDK that raises.
NoReply == [type |-> "NoneType", value |-> <<>>, repr |-> <<>>]

\* What client.chat.completions.create may do.
SdkCalls ==
    <<
     [case |-> "sdk_unreachable", raised |-> TRUE, resp |-> NoReply],
     [case |-> "sdk_unauthorized", raised |-> TRUE, resp |-> NoReply],
     [case |-> "sdk_message", raised |-> FALSE,
      resp |->
          [type |-> "object",
           value |-> [choices |->
                         [type |-> "list",
                          value |-> <<[type |-> "object",
                                      value |-> [message |->
                                                    [type |-> "object",
                                                     value |-> [content |->
                                                                   [type |-> "str", value |-> <<" ","W","h","y","?"," ">>, repr |-> <<" ","W","h","y","?"," ">>]],
                                                     repr |-> <<"M","e","s","s","a","g","e","(","c","o","n","t","e","n","t","=","'"," ","W","h","y","?"," ","'",")">>]],
                                      repr |-> <<"C","h","o","i","c","e","(","m","e","s","s","a","g","e","=","M","e","s","s","a","g","e","(","c","o","n","t","e","n","t","=","'"," ","W","h","y","?"," ","'",")",")">>]>>,
                          repr |-> <<"[","C","h","o","i","c","e","(","m","e","s","s","a","g","e","=","M","e","s","s","a","g","e","(","c","o","n","t","e","n","t","=","'"," ","W","h","y","?"," ","'",")",")","]">>]],
           repr |-> <<"C","h","a","t","C","o","m","p","l","e","t","i","o","n","(","c","h","o","i","c","e","s","=","[","C","h","o","i","c","e","(","m","e","s","s","a","g","e","=","M","e","s","s","a","g","e","(","c","o","n","t","e","n","t","=","'"," ","W","h","y","?"," ","'",")",")","]",")">>]],
     [case |-> "sdk_message_dict", raised |-> FALSE,
      resp |->
          [type |-> "object",
           value |-> [choices |->
                         [type |-> "list",
                          value |-> <<[type |-> "object",
                                      value |-> [message |->
                                                    [type |-> "dict",
                                                     value |-> <<<<<<"c","o","n","t","e","n","t">>,
                                                                  [type |-> "str", value |-> <<"W","h","y","?","\n">>, repr |-> <<"W","h","y","?","\n">>]>>>>,
                                                     repr |-> <<"{","'","c","o","n","t","e","n","t","'",":"," ","'","W","h","y","?","\\","n","'","}">>]],
                                      repr |-> <<"C","h","o","i","c","e","(","m","e","s","s","a","g","e","=","{","'","c","o","n","t","e","n","t","'",":"," ","'","W","h","y","?","\\","n","'","}",")">>]>>,
                          repr |-> <<"[","C","h","o","i","c","e","(","m","e","s","s","a","g","e","=","{","'","c","o","n","t","e","n","t","'",":"," ","'","W","h","y","?","\\","n","'","}",")","]">>]],
           repr |-> <<"C","h","a","t","C","o","m","p","l","e","t","i","o","n","(","c","h","o","i","c","e","s","=","[","C","h","o","i","c","e","(","m","e","s","s","a","g","e","=","{","'","c","o","n","t","e","n","t","'",":"," ","'","W","h","y","?","\\","n","'","}",")","]",")">>]],
     [case |-> "sdk_text_choice", raised |-> FALSE,
      resp |->
          [type |-> "object",
           value |-> [choices |->
                         [type |-> "list",
                          value |-> <<[type |-> "dict",
                                      value |-> <<<<<<"t","e","x","t">>,
                                                   [type |-> "str", value |-> <<" ","W","h","y","?">>, repr |-> <<" ","W","h","y","?">>]>>>>,
                                      repr |-> <<"{","'","t","e","x","t","'",":"," ","'"," ","W","h","y","?","'","}">>]>>,
                          repr |-> <<"[","{","'","t","e","x","t","'",":"," ","'"," ","W","h","y","?","'","}","]">>]],
           repr |-> <<"C","h","a","t","C","o","m","p","l","e","t","i","o","n","(","c","h","o","i","c","e","s","=","[","{","'","t","e","x","t","'",":"," ","'"," ","W","h","y","?","'","}","]",")">>]],
     [case |-> "sdk_null_content", raised |-> FALSE,
      resp |->
          [type |-> "object",
           value |-> [choices |->
                         [type |-> "list",
                          value |-> <<[type |-> "object",
                                      value |-> [message |->
                                                    [type |-> "object",
                                                     value |-> [content |->
                                                                   [type |-> "NoneType", value |-> <<>>, repr |-> <<"N","o","n","e">>]],
                                                     repr |-> <<"M","e","s","s","a","g","e","(","c","o","n","t","e","n","t","=","N","o","n","e",")">>]],
                                      repr |-> <<"C","h","o","i","c","e","(","m","e","s","s","a","g","e","=","M","e","s","s","a","g","e","(","c","o","n","t","e","n","t","=","N","o","n","e",")",")">>]>>,
                          repr |-> <<"[","C","h","o","i","c","e","(","m","e","s","s","a","g","e","=","M","e","s","s","a","g","e","(","c","o","n","t","e","n","t","=","N","o","n","e",")",")","]">>]],
           repr |-> <<"C","h","a","t","C","o","m","p","l","e","t","i","o","n","(","c","h","o","i","c","e","s","=","[","C","h","o","i","c","e","(","m","e","s","s","a","g","e","=","M","e","s","s","a","g","e","(","c","o","n","t","e","n","t","=","N","o","n","e",")",")","]",")">>]],
     [case |-> "sdk_no_choices", raised |-> FALSE,
      resp |->
          [type |-> "object",
           value |-> [choices |->
                         [type |-> "list",
                          value |-> <<>>,
                          repr |-> <<"[","]">>]],
           repr |-> <<"C","h","a","t","C","o","m","p","l","e","t","i","o","n","(","c","h","o","i","c","e","s","=","[","]",")">>]],
     [case |-> "sdk_bare_choice", raised |-> FALSE,
      resp |->
          [type |-> "object",
           value |-> [choices |->
                         [type |-> "list",
                          value |-> <<[type |-> "object",
                                      value |-> [finish_reason |->
                                                    [type |-> "str", value |-> <<"s","t","o","p">>, repr |-> <<"s","t","o","p">>]],
                                      repr |-> <<"C","h","o","i","c","e","(","f","i","n","i","s","h","_","r","e","a","s","o","n","=","'","s","t","o","p","'",")">>]>>,
                          repr |-> <<"[","C","h","o","i","c","e","(","f","i","n","i","s","h","_","r","e","a","s","o","n","=","'","s","t","o","p","'",")","]">>]],
           repr |-> <<"C","h","a","t","C","o","m","p","l","e","t","i","o","n","(","c","h","o","i","c","e","s","=","[","C","h","o","i","c","e","(","f","i","n","i","s","h","_","r","e","a","s","o","n","=","'","s","t","o","p","'",")","]",")">>]]
    >>

\* What the service may answer to requests.post: no answer, or a status
\* and a body, with the value the body is the JSON of.
HttpResponses ==
    <<
     [case |-> "http_unreachable", reachable |-> FALSE, status_code |-> 0,
      text |-> <<>>,
      json |->
          NotJSON],
     [case |-> "http_401", reachable |-> TRUE, status_code |-> 401,
      text |-> <<"{","\"","e","r","r","o","r","\"",":","\"","b","a","d"," ","k","e","y","\"","}">>,
      json |->
          [type |-> "dict",
           value |-> <<<<<<"e","r","r","o","r">>,
                        [type |-> "str", value |-> <<"b","a","d"," ","k","e","y">>, repr |-> <<"b","a","d"," ","k","e","y">>]>>>>,
           repr |-> <<"{","'","e","r","r","o","r","'",":"," ","'","b","a","d"," ","k","e","y","'","}">>]],
     [case |-> "http_403", reachable |-> TRUE, status_code |-> 403,
      text |-> <<"{","\"","e","r","r","o","r","\"",":","\"","n","o"," ","a","c","c","e","s","s","\"","}">>,
      json |->
          [type |-> "dict",
           value |-> <<<<<<"e","r","r","o","r">>,
                        [type |-> "str", value |-> <<"n","o"," ","a","c","c","e","s","s">>, repr |-> <<"n","o"," ","a","c","c","e","s","s">>]>>>>,
           repr |-> <<"{","'","e","r","r","o","r","'",":"," ","'","n","o"," ","a","c","c","e","s","s","'","}">>]],
     [case |-> "http_500", reachable |-> TRUE, status_code |-> 500,
      text |-> <<"b","u","s","y">>,
      json |->
          NotJSON],
     [case |-> "http_message", reachable |-> TRUE, status_code |-> 200,
      text |-> <<"{","\"","c","h","o","i","c","e","s","\"",":","[","{","\"","m","e","s","s","a","g","e","\"",":","{","\"","c","o","n","t","e","n","t","\"",":","\""," ","W","h","y","?"," ","\"","}","}","]","}">>,
      json |->
          [type |-> "dict",
           value |-> <<<<<<"c","h","o","i","c","e","s">>,
                        [type |-> "list",
                         value |-> <<[type |-> "dict",
                                     value |-> <<<<<<"m","e","s","s","a","g","e">>,
                                                  [type |-> "dict",
                                                   value |-> <<<<<<"c","o","n","t","e","n","t">>,
                                                                [type |-> "str", value |-> <<" ","W","h","y","?"," ">>, repr |-> <<" ","W","h","y","?"," ">>]>>>>,
                                                   repr |-> <<"{","'","c","o","n","t","e","n","t","'",":"," ","'"," ","W","h","y","?"," ","'","}">>]>>>>,
                                     repr |-> <<"{","'","m","e","s","s","a","g","e","'",":"," ","{","'","c","o","n","t","e","n","t","'",":"," ","'"," ","W","h","y","?"," ","'","}","}">>]>>,
                         repr |-> <<"[","{","'","m","e","s","s","a","g","e","'",":"," ","{","'","c","o","n","t","e","n","t","'",":"," ","'"," ","W","h","y","?"," ","'","}","}","]">>]>>>>,
           repr |-> <<"{","'","c","h","o","i","c","e","s","'",":"," ","[","{","'","m","e","s","s","a","g","e","'",":"," ","{","'","c","o","n","t","e","n","t","'",":"," ","'"," ","W","h","y","?"," ","'","}","}","]","}">>]],
     [case |-> "http_text_choice", reachable |-> TRUE, status_code |-> 200,
      text |-> <<"{","\"","c","h","o","i","c","e","s","\"",":","[","{","\"","t","e","x","t","\"",":","\"","W","h","y","?","\\","n","\"","}","]","}">>,
      json |->
          [type |-> "dict",
           value |-> <<<<<<"c","h","o","i","c","e","s">>,
                        [type |-> "list",
                         value |-> <<[type |-> "dict",
                                     value |-> <<<<<<"t","e","x","t">>,
                                                  [type |-> "str", value |-> <<"W","h","y","?","\n">>, repr |-> <<"W","h","y","?","\n">>]>>>>,
                                     repr |-> <<"{","'","t","e","x","t","'",":"," ","'","W","h","y","?","\\","n","'","}">>]>>,
                         repr |-> <<"[","{","'","t","e","x","t","'",":"," ","'","W","h","y","?","\\","n","'","}","]">>]>>>>,
           repr |-> <<"{","'","c","h","o","i","c","e","s","'",":"," ","[","{","'","t","e","x","t","'",":"," ","'","W","h","y","?","\\","n","'","}","]","}">>]],
     [case |-> "http_non_json", reachable |-> TRUE, status_code |-> 200,
      text |-> <<"<","h","t","m","l",">","b","u","s","y","<","/","h","t","m","l",">">>,
      json |->
          NotJSON],
     [case |-> "http_no_choices", reachable |-> TRUE, status_code |-> 200,
      text |-> <<"{","\"","e","r","r","o","r","\"",":","\"","b","u","s","y","\"","}">>,
      json |->
          [type |-> "dict",
           value |-> <<<<<<"e","r","r","o","r">>,
                        [type |-> "str", value |-> <<"b","u","s","y">>, repr |-> <<"b","u","s","y">>]>>>>,
           repr |-> <<"{","'","e","r","r","o","r","'",":"," ","'","b","u","s","y","'","}">>]],
     [case |-> "http_empty_choices", reachable |-> TRUE, status_code |-> 200,
      text |-> <<"{","\"","i","d","\"",":","\"","x","\"",",","\"","c","h","o","i","c","e","s","\"",":","[","]","}">>,
      json |->
          [type |-> "dict",
           value |-> <<<<<<"i","d">>,
                        [type |-> "str", value |-> <<"x">>, repr |-> <<"x">>]>>,
                      <<<<"c","h","o","i","c","e","s">>,
                        [type |-> "list",
                         value |-> <<>>,
                         repr |-> <<"[","]">>]>>>>,
           repr |-> <<"{","'","i","d","'",":"," ","'","x","'",","," ","'","c","h","o","i","c","e","s","'",":"," ","[","]","}">>]],
     [case |-> "http_bare_choice", reachable |-> TRUE, status_code |-> 200,
      text |-> <<"{","\"","c","h","o","i","c","e","s","\"",":","[","\"","W","h","y","?","\"","]","}">>,
      json |->
          [type |-> "dict",
           value |-> <<<<<<"c","h","o","i","c","e","s">>,
                        [type |-> "list",
                         value |-> <<[type |-> "str", value |-> <<"W","h","y","?">>, repr |-> <<"W","h","y","?">>]>>,
                         repr |-> <<"[","'","W","h","y","?","'","]">>]>>>>,
           repr |-> <<"{","'","c","h","o","i","c","e","s","'",":"," ","[","'","W","h","y","?","'","]","}">>]],
     [case |-> "http_null_content", reachable |-> TRUE, status_code |-> 200,
      text |-> <<"{","\"","c","h","o","i","c","e","s","\"",":","[","{","\"","m","e","s","s","a","g","e","\"",":","{","\"","c","o","n","t","e","n","t","\"",":","n","u","l","l","}","}","]","}">>,
      json |->
          [type |-> "dict",
           value |-> <<<<<<"c","h","o","i","c","e","s">>,
                        [type |-> "list",
                         value |-> <<[type |-> "dict",
                                     value |-> <<<<<<"m","e","s","s","a","g","e">>,
                                                  [type |-> "dict",
                                                   value |-> <<<<<<"c","o","n","t","e","n","t">>,
                                                                [type |-> "NoneType", value |-> <<>>, repr |-> <<"N","o","n","e">>]>>>>,
                                                   repr |-> <<"{","'","c","o","n","t","e","n","t","'",":"," ","N","o","n","e","}">>]>>>>,
                                     repr |-> <<"{","'","m","e","s","s","a","g","e","'",":"," ","{","'","c","o","n","t","e","n","t","'",":"," ","N","o","n","e","}","}">>]>>,
                         repr |-> <<"[","{","'","m","e","s","s","a","g","e","'",":"," ","{","'","c","o","n","t","e","n","t","'",":"," ","N","o","n","e","}","}","]">>]>>>>,
           repr |-> <<"{","'","c","h","o","i","c","e","s","'",":"," ","[","{","'","m","e","s","s","a","g","e","'",":"," ","{","'","c","o","n","t","e","n","t","'",":"," ","N","o","n","e","}","}","]","}">>]],
     [case |-> "http_null", reachable |-> TRUE, status_code |-> 200,
      text |-> <<"n","u","l","l">>,
      json |->
          [type |-> "NoneType", value |-> <<>>, repr |-> <<"N","o","n","e">>]]
    >>

\* A candidate who gives few different answers is followed for MaxHistory
\* history entries, one who may give any of Answers for MaxShortHistory.
FewAnswers == {A_quit, A_confused, A_normal}

MaxHistory == 6

MaxShortHistory == 3

VARIABLES
    enabled,    \* groq_enabled(): GROQ_API_KEY is set (fixed when the module loads)
    candidate,  \* the answers this session's candidate may give
    alive,      \* an InterviewAgent exists (st.session_state.agent is not None)
    agent,      \* its fields
    kinds,      \* history: what appended each entry ("main", "followup", "candidate")
    last,       \* the last method call and what it returned
    messages,   \* st.session_state.messages
    agent_id,   \* the number of InterviewAgent instances constructed so far
    ended,      \* the instances whose process_answer returned finished = True
    ui          \* the last handler run of main.py and the method calls it made

vars == <<enabled, candidate, alive, agent, kinds, last, messages, agent_id, ended, ui>>

ui_vars == <<messages, agent_id, ended, ui>>

HistoryBound == IF candidate = FewAnswers THEN MaxHistory ELSE MaxShortHistory

NoCall ==
    [op |-> "none", answer |-> None, raised |-> FALSE, ret |-> None, followup |-> None,
     feedback |-> <<>>, finished |-> FALSE, gen_calls |-> 0, persona_case |-> NoCase,
     feedback_by |-> "none", context |-> <<>>]

\* A generation outcome for a step that makes no generation call.
NoGeneration == [raised |-> TRUE, text |-> None]

\* process_answer reaches its generation calls only on the normal path.
NormalPath(answer) == ~end_command[answer] /\ agentic_case[answer] = NoCase

\* No handler of main.py has run.
NoHandler ==
    [handler |-> "none", answer |-> None, question |-> None, calls |-> <<>>,
     error |-> FALSE]

\* InterviewAgent(role): raises unless groq_enabled().
Init ==
    /\ enabled \in BOOLEAN
    /\ candidate \in {FewAnswers, Answers}
    /\ alive = enabled
    /\ agent = NewAgent
    /\ kinds = <<>>
    /\ last = NoCall
    /\ messages = <<>>
    /\ agent_id = IF enabled THEN 1 ELSE 0
    /\ ended = {}
    /\ ui = NoHandler

GetNextQuestion ==
    /\ alive
    /\ Len(agent.history) + 1 <= HistoryBound
    /\ \E g \in groq_generate :
          \E r \in {get_next_question(agent, enabled, g)} :
              /\ agent' = r.agent
              /\ kinds' = kinds \o AppendedKinds(agent.history, r.agent.history,
                                                 "get_next_question")
              /\ last' = [NoCall EXCEPT !.op = "get_next_question", !.raised = r.raised,
                                        !.ret = r.ret, !.gen_calls = r.gen_calls,
                                        !.context = r.context]
    /\ UNCHANGED <<enabled, candidate, alive, ui_vars>>

\* The question the caller passes: the one it was last given, None before any.
LastQuestion(history) ==
    LET asked == prev_questions(history)
    IN  IF asked = <<>> THEN None ELSE asked[Len(asked)]

ProcessAnswer ==
    /\ alive
    /\ Len(agent.history) + 1 <= HistoryBound
    /\ \E answer \in candidate :
          \E gfb \in (IF NormalPath(answer) THEN groq_generate ELSE {NoGeneration}),
             gfu \in (IF NormalPath(answer) THEN groq_generate ELSE {NoGeneration}) :
             \E r \in {process_answer(agent, enabled, answer, LastQuestion(agent.history),
                                      gfb, gfu)} :
                 /\ Len(r.agent.history) <= HistoryBound
                 /\ agent' = r.agent
                 /\ kinds' = kinds \o AppendedKinds(agent.history, r.agent.history,
                                                    "process_answer")
                 /\ last' = [op |-> "process_answer", answer |-> answer,
                             raised |-> r.raised, ret |-> None, followup |-> r.followup,
                             feedback |-> r.feedback, finished |-> r.finished,
                             gen_calls |-> r.gen_calls, persona_case |-> r.persona_case,
                             feedback_by |-> r.feedback_by, context |-> <<>>]
    /\ UNCHANGED <<enabled, candidate, alive, ui_vars>>

Next == GetNextQuestion \/ ProcessAnswer

Spec == Init /\ [][Next]_vars

(***************************************************************************)
(* The page driven through its handlers.                                   *)
(***************************************************************************)
\* Each interview is followed for MaxUIHistory history entries, and
\* MaxInterviews interviews are started.
MaxUIHistory == 4

MaxInterviews == 2

SessionState == [agent |-> agent, alive |-> alive, messages |-> messages,
                 agent_id |-> agent_id]

\* The page as first loaded: no agent, no messages.
InitUI ==
    /\ enabled \in BOOLEAN
    /\ candidate = UIAnswers
    /\ alive = FALSE
    /\ agent = NewAgent
    /\ kinds = <<>>
    /\ last = NoCall
    /\ messages = <<>>
    /\ agent_id = 0
    /\ ended = {}
    /\ ui = NoHandler

SetSessionState(st) ==
    /\ agent' = st.agent
    /\ alive' = st.alive
    /\ messages' = st.messages
    /\ agent_id' = st.agent_id

StartNewInterview ==
    /\ agent_id < MaxInterviews
    /\ \E g \in groq_generate :
          \E h \in {start_new_interview(SessionState, enabled, g)} :
              /\ SetSessionState(h.st)
              /\ kinds' = IF h.constructed THEN h.kinds ELSE kinds
              /\ ui' = [handler |-> "start", answer |-> None, question |-> None,
                        calls |-> h.calls, error |-> h.error]
    /\ UNCHANGED <<enabled, candidate, last, ended>>

\* A generation outcome is drawn for the calls the turn can reach.
SubmitAnswer ==
    /\ alive
    /\ Len(agent.history) + 1 <= MaxUIHistory
    /\ \E typed \in candidate :
          LET normal == stripped[typed] # <<>> /\ NormalPath(stripped[typed])
          IN  \E gfb \in (IF normal THEN groq_generate ELSE {NoGeneration}),
                 gfu \in (IF normal THEN groq_generate ELSE {NoGeneration}),
                 gq  \in (IF normal THEN groq_generate ELSE {NoGeneration}) :
                 \E h \in {submit_answer(SessionState, enabled, typed, gfb, gfu, gq)} :
                     /\ Len(h.st.agent.history) <= MaxUIHistory
                     /\ SetSessionState(h.st)
                     /\ kinds' = IF h.st.alive THEN kinds \o h.kinds ELSE <<>>
                     /\ ended' = IF \E i \in DOMAIN h.calls : h.calls[i].finished
                                 THEN ended \cup {agent_id} ELSE ended
                     /\ ui' = [handler |-> "submit", answer |-> stripped[typed],
                               question |-> h.question, calls |-> h.calls,
                               error |-> h.error]
    /\ UNCHANGED <<enabled, candidate, last>>

NextUI == StartNewInterview \/ SubmitAnswer

SpecUI == InitUI /\ [][NextUI]_vars

(***************************************************************************)
(* The functions called on their own: is_end_command, detect_agentic_case, *)
(* simple_scores and scores_to_feedback on inputs drawn from the sets      *)
(* below, one call a behaviour; last is the call and what it returned.     *)
(***************************************************************************)
EndPrefixes ==
  {
    <<>>,
    <<" ">>,
    <<"!">>,
    <<"."," ">>
  }

EndBodies ==
  {
    <<"q","u","i","t">>,
    <<"Q","U","I","T">>,
    <<"E","n","d"," ","I","n","t","e","r","v","i","e","w">>,
    <<"s","t","o","p">>,
    <<"e","x","i","t">>,
    <<"f","i","n","i","s","h"," ","i","n","t","e","r","v","i","e","w">>,
    <<"t","e","r","m","i","n","a","t","e">>,
    <<"q","u","i","t","t","i","n","g">>,
    <<>>,
    <<"e","n","d"," ","t","h","e"," ","i","n","t","e","r","v","i","e","w">>,
    <<"q","u",".","i","t">>
  }

EndSuffixes ==
  {
    <<>>,
    <<"!">>,
    <<".">>,
    <<"?">>,
    <<",">>,
    <<"!","?">>,
    <<" ">>,
    <<".","\n">>,
    <<" ",".">>
  }

EndTexts ==
    {None} \cup {p \o b \o s : p \in EndPrefixes, b \in EndBodies, s \in EndSuffixes}

Greetings ==
  {
    <<>>,
    <<"h","i"," ">>,
    <<"H","e","l","l","o",","," ">>,
    <<"g","o","o","d"," ","m","o","r","n","i","n","g"," ">>
  }

Middles ==
  {
    <<>>,
    <<"i","d","k">>,
    <<"n","o"," ","i","d","e","a">>,
    <<"I"," ","d","o","n","U+2019","t"," ","k","n","o","w">>,
    <<"h","e","l","p">>,
    <<"i"," ","a","m"," ","l","o","s","t">>,
    <<"w","e"," ","c","a","c","h","e"," ","r","e","a","d","s">>,
    <<"n","o","t"," ","s","u","r","e">>
  }

Tails ==
  {
    <<>>,
    <<" ">>,
    <<" ","h","e","r","e"," ","n","o","w">>,
    <<" ","i","n"," ","m","e","m","o","r","y"," ","e","v","e","r","y"," ","d","a","y">>
  }

CaseTexts ==
    {None} \cup {g \o m \o t : g \in Greetings, m \in Middles, t \in Tails}

\* 'I improved performance by adding caching, indexing, and optimizing database queries.'
SampleAnswer ==
    <<"I"," ","i","m","p","r","o","v","e","d"," ","p","e","r","f","o","r","m","a","n","c",
      "e"," ","b","y"," ","a","d","d","i","n","g"," ","c","a","c","h","i","n","g",","," ",
      "i","n","d","e","x","i","n","g",","," ","a","n","d"," ","o","p","t","i","m","i","z",
      "i","n","g"," ","d","a","t","a","b","a","s","e"," ","q","u","e","r","i","e","s",".">>

\* ' \n'
S_blank ==
    <<" ","\n">>

\* 'we use caching here'
S_4 ==
    <<"w","e"," ","u","s","e"," ","c","a","c","h","i","n","g"," ","h","e","r","e">>

\* 'I improved performance by adding Caching, indexing, and optimizing our database queries.'
S_12 ==
    <<"I"," ","i","m","p","r","o","v","e","d"," ","p","e","r","f","o","r","m","a","n","c",
      "e"," ","b","y"," ","a","d","d","i","n","g"," ","C","a","c","h","i","n","g",","," ",
      "i","n","d","e","x","i","n","g",","," ","a","n","d"," ","o","p","t","i","m","i","z",
      "i","n","g"," ","o","u","r"," ","d","a","t","a","b","a","s","e"," ","q","u","e","r",
      "i","e","s",".">>

\* 'caching indexing sharding replication x x x x x x x x x x x x x x x x x x x x x x x x x x x x x x x x x x x'
S_39 ==
    <<"c","a","c","h","i","n","g"," ","i","n","d","e","x","i","n","g"," ","s","h","a","r",
      "d","i","n","g"," ","r","e","p","l","i","c","a","t","i","o","n"," ","x"," ","x"," ",
      "x"," ","x"," ","x"," ","x"," ","x"," ","x"," ","x"," ","x"," ","x"," ","x"," ","x",
      " ","x"," ","x"," ","x"," ","x"," ","x"," ","x"," ","x"," ","x"," ","x"," ","x"," ",
      "x"," ","x"," ","x"," ","x"," ","x"," ","x"," ","x"," ","x"," ","x"," ","x"," ","x",
      " ","x">>

\* 'caching indexing sharding replication x x x x x x x x x x x x x x x x x x x x x x x x x x x x x x x x x x x x'
S_40 ==
    <<"c","a","c","h","i","n","g"," ","i","n","d","e","x","i","n","g"," ","s","h","a","r",
      "d","i","n","g"," ","r","e","p","l","i","c","a","t","i","o","n"," ","x"," ","x"," ",
      "x"," ","x"," ","x"," ","x"," ","x"," ","x"," ","x"," ","x"," ","x"," ","x"," ","x",
      " ","x"," ","x"," ","x"," ","x"," ","x"," ","x"," ","x"," ","x"," ","x"," ","x"," ",
      "x"," ","x"," ","x"," ","x"," ","x"," ","x"," ","x"," ","x"," ","x"," ","x"," ","x",
      " ","x"," ","x">>

\* 'Caching, caching and more caching.'
S_repeated ==
    <<"C","a","c","h","i","n","g",","," ","c","a","c","h","i","n","g"," ","a","n","d"," ","m","o","r","e"," ","c","a","c","h","i","n","g",".">>

ScoreAnswers ==
    {None, A_empty, S_blank, S_4, S_repeated, A_normal, SampleAnswer, S_12, S_39, S_40}

K_caching ==
    <<"c","a","c","h","i","n","g">>

K_Caching ==
    <<"C","a","c","h","i","n","g">>

K_indexing ==
    <<"i","n","d","e","x","i","n","g">>

K_sharding ==
    <<"s","h","a","r","d","i","n","g">>

K_replication ==
    <<"r","e","p","l","i","c","a","t","i","o","n">>

K_database ==
    <<"d","a","t","a","b","a","s","e">>

K_queries ==
    <<"q","u","e","r","i","e","s">>

KeywordLists ==
    {<<>>,
     <<K_caching, K_indexing>>,
     <<K_Caching, K_indexing, K_sharding, K_replication>>,
     <<K_caching, K_indexing, K_database, K_queries>>,
     <<K_caching, K_Caching, K_caching>>}

ShortAnswerTokens == {-1, 5, 12, 40, 41}

GoodDepthMatches == {-3, 0, 2, 3}

ThresholdDicts ==
    {EmptyDict}
    \cup {[short_answer_tokens |-> s, good_depth_matches |-> g] :
            s \in ShortAnswerTokens, g \in GoodDepthMatches}

\* 'Use STAR.'
T_structure ==
    <<"U","s","e"," ","S","T","A","R",".">>

\* 'Name the parts.'
T_detail ==
    <<"N","a","m","e"," ","t","h","e"," ","p","a","r","t","s",".">>

\* 'Stay on topic.'
T_on_topic ==
    <<"S","t","a","y"," ","o","n"," ","t","o","p","i","c",".">>

MessageDicts ==
    {EmptyDict,
     [structure_tip |-> T_structure],
     [structure_tip |-> T_structure, detail_tip |-> T_detail, on_topic_tip |-> T_on_topic]}

\* An optional key of a dict: left out, or present with a value.
Optional(values) ==
    {[has |-> FALSE, value |-> EmptyDict]} \cup {[has |-> TRUE, value |-> v] : v \in values}

\* The rubric with the keys that are present.
Rubric(t, k, m) ==
    [key \in {x \in {"thresholds", "depth_keywords", "messages"} :
                 \/ x = "thresholds" /\ t.has
                 \/ x = "depth_keywords" /\ k.has
                 \/ x = "messages" /\ m.has} |->
        IF key = "thresholds" THEN t.value
        ELSE IF key = "depth_keywords" THEN k.value
        ELSE m.value]

NoMessages == [has |-> FALSE, value |-> EmptyDict]

NoThresholds == [has |-> FALSE, value |-> EmptyDict]

NoKeywords == [has |-> FALSE, value |-> EmptyDict]

\* The rubrics simple_scores is given, and the one the file may hold.
ScoreRubrics ==
    {Rubric(t, k, NoMessages) : t \in Optional(ThresholdDicts), k \in Optional(KeywordLists)}

FileRubric ==
    Rubric([has |-> TRUE, value |-> [short_answer_tokens |-> 12, good_depth_matches |-> 2]],
           [has |-> TRUE, value |-> <<K_caching, K_indexing>>],
           [has |-> TRUE, value |-> [structure_tip |-> T_structure]])

\* A call's rubric argument with what load_rubric() gives if it is called.
RubricArguments(rubrics) ==
    {[rubric |-> rb, loaded |-> Loaded(FileRubric)] : rb \in rubrics}
    \cup {[rubric |-> NoRubric, loaded |-> l] : l \in {LoadFailed, Loaded(FileRubric)}}

\* The rubrics scores_to_feedback is given.
FeedbackRubrics ==
    {Rubric(NoThresholds, NoKeywords, m) : m \in Optional(MessageDicts)}

ScoreDicts ==
    {[communication |-> c, depth |-> d, relevance |-> r] : c, d, r \in 1..5}
    \cup {EmptyDict, [depth |-> 5]}

InitFn ==
    /\ enabled = TRUE
    /\ candidate = {}
    /\ alive = TRUE
    /\ agent = NewAgent
    /\ kinds = <<>>
    /\ last = NoCall
    /\ messages = <<>>
    /\ agent_id = 1
    /\ ended = {}
    /\ ui = NoHandler

IsEndCommand ==
    /\ last = NoCall
    /\ \E text \in EndTexts :
          last' = [op |-> "is_end_command", answer |-> text, result |-> is_end_command(text)]
    /\ UNCHANGED <<enabled, candidate, alive, agent, kinds, ui_vars>>

DetectAgenticCase ==
    /\ last = NoCall
    /\ \E text \in CaseTexts :
          last' = [op |-> "detect_agentic_case", answer |-> text,
                   result |-> detect_agentic_case(text)]
    /\ UNCHANGED <<enabled, candidate, alive, agent, kinds, ui_vars>>

SimpleScores ==
    /\ last = NoCall
    /\ \E answer \in ScoreAnswers, arg \in RubricArguments(ScoreRubrics) :
          \E r \in {simple_scores(answer, arg.rubric, arg.loaded)} :
              last' = [op |-> "simple_scores", answer |-> answer, rubric |-> arg.rubric,
                       loaded |-> arg.loaded, raised |-> r.raised, scores |-> r.scores,
                       n_tokens |-> r.n_tokens, matches |-> r.matches]
    /\ UNCHANGED <<enabled, candidate, alive, agent, kinds, ui_vars>>

ScoresToFeedback ==
    /\ last = NoCall
    /\ \E scores \in ScoreDicts, arg \in RubricArguments(FeedbackRubrics) :
          \E r \in {scores_to_feedback(scores, arg.rubric, arg.loaded)} :
              last' = [op |-> "scores_to_feedback", scores |-> scores,
                       rubric |-> arg.rubric, loaded |-> arg.loaded,
                       raised |-> r.raised, bullets |-> r.bullets]
    /\ UNCHANGED <<enabled, candidate, alive, agent, kinds, ui_vars>>

NextFn == IsEndCommand \/ DetectAgenticCase \/ SimpleScores \/ ScoresToFeedback

SpecFn == InitFn /\ [][NextFn]_vars

(***************************************************************************)
(* The session with its collaborator: the methods of an InterviewAgent as  *)
(* in Spec, and the calls of groq_generate they make seen from inside, on  *)
(* the outcomes of its transports drawn from SdkCalls and HttpResponses.   *)
(***************************************************************************)
\* The answers of the candidate of this session: one for a persona turn and
\* one that takes the normal path, with its two generation steps.
GenAnswers == {A_idk, A_normal}

InitGen ==
    /\ enabled \in BOOLEAN
    /\ candidate = GenAnswers
    /\ alive = enabled
    /\ agent = NewAgent
    /\ kinds = <<>>
    /\ last = NoCall
    /\ messages = <<>>
    /\ agent_id = IF enabled THEN 1 ELSE 0
    /\ ended = {}
    /\ ui = NoHandler

\* A transport's outcome where it was attempted.
Attempted(transport, attempts, case) ==
    IF \E i \in DOMAIN attempts : attempts[i] = transport THEN case ELSE "not_called"

\* The transports a call gets to see: the SDK's call where there is a client,
\* the service's answer where there is none or the SDK's call raises.
TransportsSeen(sdk_client, importable) ==
    {<<i, j>> \in (DOMAIN SdkCalls) \X (DOMAIN HttpResponses) :
        IF init_sdk_client(sdk_client, TRUE, importable)
        THEN SdkCalls[i].raised \/ j = 1
        ELSE i = 1}

\* One call of groq_generate; the module holds an SDK client from an earlier
\* call only where the key is set.
GroqGenerate ==
    /\ \E sdk_client \in (IF enabled THEN BOOLEAN ELSE {FALSE}), importable \in BOOLEAN :
          \E t \in TransportsSeen(sdk_client, importable) :
              \E r \in {groq_generate_call(enabled, sdk_client, importable,
                                           SdkCalls[t[1]], HttpResponses[t[2]])} :
                  last' = [op |-> "groq_generate",
                           client |-> init_sdk_client(sdk_client, enabled, importable),
                           sdk |-> Attempted("sdk", r.attempts, SdkCalls[t[1]].case),
                           sdk_raised |-> SdkCalls[t[1]].raised,
                           http |-> Attempted("http", r.attempts, HttpResponses[t[2]].case),
                           raised |-> r.raised, text |-> r.text, attempts |-> r.attempts]
    /\ UNCHANGED <<enabled, candidate, alive, agent, kinds, ui_vars>>

NextGen == GetNextQuestion \/ ProcessAnswer \/ GroqGenerate

SpecGen == InitGen /\ [][NextGen]_vars

(***************************************************************************)
(* Properties of the session.                                              *)
(***************************************************************************)
IsPrefix(s, t) == Len(s) <= Len(t) /\ SubSeq(t, 1, Len(s)) = s

\* The follow-ups appended to the history since the last main question.
FollowupsSinceMain ==
    LET mains    == {i \in DOMAIN kinds : kinds[i] = "main"}
        lastMain == IF mains = {} THEN 0 ELSE CHOOSE i \in mains : \A j \in mains : j <= i
    IN  Cardinality({i \in DOMAIN kinds : i > lastMain /\ kinds[i] = "followup"})

\* C1: on the normal path of process_answer, when the collaborator did not
\* produce the feedback (unavailable, raised, blank), the call still returns
\* normally, with the feedback of the deterministic engine (simple_scores and
\* scores_to_feedback).
C1_FeedbackFallsBack ==
    (last.op = "process_answer" /\ NormalPath(last.answer) /\ last.feedback_by # "groq")
        => (~last.raised /\ last.feedback_by = "simple_scores")

\* C2: in every reachable state of a session 0 <= followup_count <= 2.
C2_FollowupCountBounded == agent.followup_count \in 0..2

\* A normal-path turn at followup_count = 2: feedback was produced and the
\* follow-up was refused.
C2_Witness ==
    /\ agent.followup_count = 2
    /\ last.op = "process_answer"
    /\ last.feedback_by = "groq"
    /\ last.followup = None

\* C3: a get_next_question that returns a question leaves followup_count = 0,
\* and no other step (a get_next_question that raises or returns None, any
\* process_answer) decreases followup_count.
C3_ResetExactlyOnNewQuestion ==
    [][/\ (last'.op = "get_next_question" /\ last'.ret # None)
            => agent'.followup_count = 0
       /\ agent'.followup_count < agent.followup_count
            => (last'.op = "get_next_question" /\ last'.ret # None /\ ~last'.raised)]_vars

\* A new main question after two follow-ups: the count is back to 0.
C3_Witness ==
    /\ last.op = "get_next_question"
    /\ last.ret # None
    /\ agent.followup_count = 0
    /\ Cardinality({i \in DOMAIN kinds : kinds[i] = "followup"}) = 2

\* C4: followup_count is the number of follow-ups appended to the history since
\* the last main question, at most 2, and a follow-up that process_answer
\* returns is the interviewer entry it appended last.
C4_FollowupsPerMainQuestion ==
    /\ Len(kinds) = Len(agent.history)
    /\ \A i \in DOMAIN kinds :
          agent.history[i].role = (IF kinds[i] = "candidate" THEN "candidate"
                                   ELSE "interviewer")
    /\ agent.followup_count = FollowupsSinceMain
    /\ FollowupsSinceMain <= 2
    /\ (last.op = "process_answer" /\ last.feedback_by = "groq" /\ last.followup # None)
          => /\ agent.history[Len(agent.history)] = Interviewer(last.followup)
             /\ kinds[Len(kinds)] = "followup"

\* Two follow-ups since a main question, the second just returned.
C4_Witness ==
    /\ \E i \in DOMAIN kinds : kinds[i] = "main"
    /\ FollowupsSinceMain = 2
    /\ last.op = "process_answer"
    /\ last.followup # None
    /\ last.feedback_by = "groq"

\* C5: process_answer returns finished = True exactly for an end command; that
\* turn returns followup None and the one "ended" bullet, makes no generation
\* call, appends the answer as one candidate entry and leaves followup_count and
\* the persona counter alone, although the answer would classify as TOO_SHORT.
C5_EndCommandTurn ==
    /\ [](last.op = "process_answer" =>
            /\ last.finished <=> is_end_command(last.answer)
            /\ last.finished =>
                  /\ ~last.raised
                  /\ last.followup = None
                  /\ last.feedback = <<EndedFeedback>>
                  /\ last.gen_calls = 0
                  /\ last.persona_case = NoCase
                  /\ detect_agentic_case(last.answer) = "TOO_SHORT")
    /\ [][(last'.op = "process_answer" /\ last'.finished) =>
            /\ agent'.history = Append(agent.history, Candidate(last'.answer))
            /\ agent'.followup_count = agent.followup_count
            /\ agent'.agentic_case_counter = agent.agentic_case_counter]_vars

\* An end command after a follow-up and a persona turn.
C5_Witness ==
    /\ last.op = "process_answer"
    /\ last.finished
    /\ agent.followup_count > 0
    /\ \E c \in Cases : agent.agentic_case_counter[c] > 0

\* The calls a handler made: none on an instance whose process_answer had
\* returned finished = True, and none after a call that returned it.
CallsSpareEndedInstances ==
    \A i \in DOMAIN ui'.calls :
        /\ ui'.calls[i].id \notin ended
        /\ \A j \in 1..(i - 1) : ~ui'.calls[j].finished

\* The answer form comes back only through "Start New Interview", which
\* constructs an instance and asks it, as its first call, for a question.
FormReturnsWithFreshAgent ==
    (~alive /\ alive') =>
        /\ ui'.handler = "start"
        /\ agent_id' \notin ended'
        /\ \E g \in groq_generate : agent' = get_next_question(NewAgent, enabled, g).agent
        /\ agent'.followup_count = 0
        /\ \A c \in Cases : agent'.agentic_case_counter[c] = 0
        /\ Len(agent'.history) <= 1

\* C6: once a turn returns finished = True the page discards the agent: no
\* process_answer or get_next_question call is made on that instance again,
\* the answer form is gone (no agent in the session state) until an interview
\* is started, and the interview started has a new instance with an empty
\* history, followup_count 0 and no persona case counted when it is first
\* asked for a question.
C6_FinishedSessionDiscarded ==
    /\ [](agent_id \in ended => ~alive)
    /\ [][CallsSpareEndedInstances /\ FormReturnsWithFreshAgent]_vars

\* An interview was ended, another one started, and an answer processed in it.
C6_Witness ==
    /\ ended # {}
    /\ alive
    /\ agent_id \notin ended
    /\ ui.handler = "submit"
    /\ ui.calls # <<>>

\* A turn that reached detect_agentic_case and got a case from it.
PersonaTurn ==
    /\ last.op = "process_answer"
    /\ ~end_command[last.answer]
    /\ agentic_case[last.answer] # NoCase

\* What a persona turn returns besides its follow-up, and all it changes: no
\* scoring and no generation call, one candidate entry appended, the case's
\* count incremented, followup_count and the rest of the history untouched.
PersonaTurnReturns ==
    /\ ~last.raised
    /\ ~last.finished
    /\ last.persona_case = agentic_case[last.answer]
    /\ last.feedback = <<PersonaFeedback>>
    /\ last.feedback_by = "persona"
    /\ last.gen_calls = 0

PersonaTurnFrame ==
    (PersonaTurn)' =>
        /\ agent'.history = Append(agent.history, Candidate(last'.answer))
        /\ agent'.agentic_case_counter =
              [agent.agentic_case_counter EXCEPT ![agentic_case[last'.answer]] = @ + 1]
        /\ agent'.followup_count = agent.followup_count

EarlierOccurrence(c) ==
    \E i \in 1..(Len(agent.history) - 1) :
        /\ agent.history[i].role = "candidate"
        /\ ~end_command[agent.history[i].text]
        /\ agentic_case[agent.history[i].text] = c

ClassifiedTurns(c) ==
    Cardinality({i \in DOMAIN agent.history :
                    /\ agent.history[i].role = "candidate"
                    /\ ~end_command[agent.history[i].text]
                    /\ agentic_case[agent.history[i].text] = c})

\* C9: each label's count is the number of turns classified with it, and no
\* step lowers a count.
C9_PersonaCounter ==
    /\ [](\A c \in Cases : agent.agentic_case_counter[c] = ClassifiedTurns(c))
    /\ [][\A c \in Cases :
            agent'.agentic_case_counter[c] >= agent.agentic_case_counter[c]]_vars

\* A new main question after two CONFUSED turns and an end command: the count
\* is still 2.
C9_Witness ==
    /\ agent.agentic_case_counter["CONFUSED"] = 2
    /\ last.op = "get_next_question"
    /\ last.ret # None
    /\ \E i \in DOMAIN agent.history :
          agent.history[i].role = "candidate" /\ end_command[agent.history[i].text]

\* C10: every step leaves the history it found as a prefix of the history it
\* leaves, and every entry is an interviewer's or a candidate's.
C10_HistoryAppendOnly ==
    /\ [](\A i \in DOMAIN agent.history :
            agent.history[i].role \in {"interviewer", "candidate"})
    /\ [][IsPrefix(agent.history, agent'.history)]_vars

\* A process_answer that raised, its answer appended after a question, an
\* answer and a follow-up.
C10_Witness ==
    /\ last.op = "process_answer"
    /\ last.raised
    /\ Len(agent.history) >= 4
    /\ agent.history[Len(agent.history)] = Candidate(last.answer)

\* C11: a failed generation attempt appends no interviewer entry.  A
\* get_next_question that raises or gets blank text leaves the history and
\* followup_count as they were; a normal-path turn whose follow-up attempt
\* gave nothing (the collaborator raised, or its text was blank or too short)
\* leaves followup_count as it was and the history with only the answer added.
C11_FailedGenerationLeavesSession ==
    [][/\ (last'.op = "get_next_question" /\ (last'.raised \/ last'.ret = None))
            => agent' = agent
       /\ (last'.op = "process_answer" /\ last'.feedback_by = "groq"
           /\ last'.followup = None)
            => agent' = [agent EXCEPT !.history = Append(@, Candidate(last'.answer))]
       /\ (last'.op = "process_answer" /\ last'.raised)
            => agent' = [agent EXCEPT !.history = Append(@, Candidate(last'.answer))]]_vars

\* A follow-up attempt that failed with budget left, after one that succeeded:
\* the one follow-up is still the only one counted and recorded.
C11_Witness ==
    /\ last.op = "process_answer"
    /\ last.feedback_by = "groq"
    /\ last.followup = None
    /\ last.gen_calls = 2
    /\ agent.followup_count = 1
    /\ Cardinality({i \in DOMAIN kinds : kinds[i] = "followup"}) = 1

\* C12: a get_next_question whose generation call came back without a usable
\* question (blank after trimming and prefix stripping) raises, as it does
\* when the call itself fails: it never returns normally without a question.
C12_BlankQuestionRaises ==
    (last.op = "get_next_question" /\ last.gen_calls = 1 /\ last.ret = None)
        => last.raised

\* The texts of the collaborator that give no follow-up: blank or at most 10
\* characters once trimmed and rid of their prefix (evaluated once).
unusable_followup ==
    [t \in GenTexts |-> Len(strip_followup_prefixes(strip(t), 1)) <= 10]

\* The follow-up attempt of a turn on agent a gives nothing: the budget is
\* used up, the collaborator raises, or its text is blank or too short.
FollowupFails(a, gfu) ==
    \/ a.followup_count >= 2
    \/ gfu.raised
    \/ unusable_followup[gfu.text]

\* C13: on the normal path, once the feedback was obtained, process_answer
\* returns normally with that feedback whatever the follow-up attempt does,
\* and with followup None when the attempt fails (collaborator error, blank
\* or too short text, followup_count >= 2).
C13_FollowupBestEffort ==
    /\ (last.op = "process_answer" /\ last.feedback_by = "groq")
          => (~last.raised /\ last.feedback # <<>>)
    /\ \A question \in {LastQuestion(agent.history)} :
       \A answer \in {a \in candidate : NormalPath(a)}, gfb \in groq_generate :
       \A fb \in {generate_ai_feedback(enabled, question, answer, gfb)} :
          ~fb.raised =>
              \A gfu \in groq_generate :
              \A r \in {process_answer(agent, enabled, answer, question, gfb, gfu)} :
                  /\ ~r.raised
                  /\ r.feedback = fb.bullets
                  /\ FollowupFails(agent, gfu) => r.followup = None

\* A turn at followup_count = 1 that got its feedback and no follow-up, the
\* collaborator having been called for both.
C13_Witness ==
    /\ last.op = "process_answer"
    /\ ~last.raised
    /\ last.feedback_by = "groq"
    /\ last.feedback # <<>>
    /\ last.followup = None
    /\ last.gen_calls = 2

\* The history as the last call found it.
HistoryBefore ==
    IF last.op = "get_next_question" /\ last.ret # None
    THEN SubSeq(agent.history, 1, Len(agent.history) - 1)
    ELSE agent.history

\* The texts of the entries of HistoryBefore appended as one of ks, in order.
RECURSIVE TextsOfKinds(_, _)
TextsOfKinds(ks, i) ==
    IF i > Len(HistoryBefore) THEN <<>>
    ELSE (IF kinds[i] \in ks THEN <<agent.history[i].text>> ELSE <<>>)
         \o TextsOfKinds(ks, i + 1)

LastThree(s) == IF Len(s) <= 3 THEN s ELSE SubSeq(s, Len(s) - 2, Len(s))

\* C14 as stated: the context get_next_question gives the generator is the
\* last 3 (or fewer) main questions asked before; follow-ups are no part of it.
C14_ContextIsMainQuestions ==
    (last.op = "get_next_question" /\ last.gen_calls = 1)
        => last.context = LastThree(TextsOfKinds({"main"}, 1))

\* C14, amended: the context get_next_question gives the generator is the last
\* 3 (or fewer) interviewer entries of the history, main questions and
\* follow-ups alike, in order; follow-ups are part of it and displace main
\* questions from it.
C14_ContextIsInterviewerEntries ==
    (last.op = "get_next_question" /\ last.gen_calls = 1)
        => last.context = LastThree(TextsOfKinds({"main", "followup"}, 1))

\* A question generated after a main question and its two follow-ups: the
\* context held all three.
C14_Witness ==
    /\ last.op = "get_next_question"
    /\ last.ret # None
    /\ Len(last.context) = 3
    /\ kinds = <<"main", "candidate", "followup", "candidate", "followup", "main">>

\* The session's currentMainQuestion: the field of that name, absent where
\* the agent has none.
currentMainQuestion ==
    IF "currentMainQuestion" \in DOMAIN agent THEN agent["currentMainQuestion"] ELSE None

\* The text of the question the last successful get_next_question appended,
\* None before any.
MostRecentMain ==
    LET mains == {i \in DOMAIN kinds : kinds[i] = "main"}
    IN  IF mains = {} THEN None
        ELSE agent.history[CHOOSE i \in mains : \A j \in mains : j <= i].text

NewMainQuestion == last.op = "get_next_question" /\ last.ret # None

\* C15 as stated: the session records its current main question, the text the
\* most recent successful get_next_question returned (absent before any).
C15_CurrentMainQuestionRecorded == currentMainQuestion = MostRecentMain

\* C15, amended: the session has no currentMainQuestion field (its fields are
\* history, followup_count and agentic_case_counter); the text returned by the
\* most recent successful get_next_question is kept only as the interviewer
\* entry that call appended to the history, and that entry is not changed by
\* follow-ups, persona nudges or failed generation attempts.
C15_MainQuestionOnlyInHistory ==
    /\ [](/\ DOMAIN agent = {"history", "followup_count", "agentic_case_counter"}
          /\ NewMainQuestion =>
                /\ MostRecentMain = last.ret
                /\ agent.history[Len(agent.history)] = Interviewer(last.ret))
    /\ [][~NewMainQuestion' => MostRecentMain' = MostRecentMain]_vars

\* A persona nudge after a follow-up: the main question asked before them is
\* still the entry the history opened with.
C15_Witness ==
    /\ last.op = "process_answer"
    /\ last.persona_case # NoCase
    /\ agent.followup_count > 0
    /\ MostRecentMain # None
    /\ agent.history[1] = Interviewer(MostRecentMain)

(***************************************************************************)
(* Properties of the functions.                                            *)
(***************************************************************************)
\* The text trimmed and lower-cased, and with its trailing punctuation
\* removed, is one of the end phrases.
EndPhraseBeforeTrailingPunctuation(text) ==
    /\ text # None
    /\ LET t == lower(strip(text))
       IN  t \in end_phrases \/ RStrip(t, {".", "!", "?", ","}) \in end_phrases

\* C16: is_end_command(text) is true exactly when the trimmed, lower-cased
\* text, optionally with trailing punctuation from . ! ? , removed, is one of
\* the 10 end phrases; punctuation elsewhere (leading, say) does not make a
\* text an end command, an empty, absent or blank text is none,
\* is_end_command("QUIT!") is true and is_end_command("quitting") is false.
C16_EndCommandIffTrailingPunctuation ==
    /\ Cardinality(end_phrases) = 10
    /\ last.op = "is_end_command" =>
          /\ last.result <=> EndPhraseBeforeTrailingPunctuation(last.answer)
          /\ (last.answer = None \/ strip(last.answer) = <<>>) => ~last.result
          /\ last.answer = A_quit => last.result
          /\ last.answer = A_short => ~last.result

\* The answer as detect_agentic_case looks at it: trimmed and lower-cased.
Normalized(answer) == lower(strip(IF answer = None THEN <<>> ELSE answer))

CaseOrder == <<"EMPTY", "IDK", "TOO_SHORT", "CONFUSED", "CHATTY">>

\* The predicate of each case on a normalized answer.
CasePredicate(c, a) ==
    CASE c = "EMPTY"     -> a = <<>>
      [] c = "IDK"       -> a \in idk_phrases
      [] c = "TOO_SHORT" -> Len(split(a)) < 5
      [] c = "CONFUSED"  -> \E i \in DOMAIN confused_phrases : contains(a, confused_phrases[i])
      [] c = "CHATTY"    -> \E i \in DOMAIN chatty_phrases : startswith(a, chatty_phrases[i])

FirstCase(a) ==
    LET holding == {i \in DOMAIN CaseOrder : CasePredicate(CaseOrder[i], a)}
    IN  IF holding = {} THEN NoCase
        ELSE CaseOrder[CHOOSE i \in holding : \A j \in holding : i <= j]

\* 'no idea'
NoIdea == <<"n","o"," ","i","d","e","a">>

\* C17: detect_agentic_case returns the first case, in the order EMPTY, IDK,
\* TOO_SHORT, CONFUSED, CHATTY, whose predicate holds of the answer, None if
\* none does: "no idea" is IDK, an answer of fewer than 5 tokens that is
\* neither blank nor an IDK phrase is TOO_SHORT whatever it contains, and an
\* answer of 5 tokens or more with a confusion phrase and a greeting at its
\* start is CONFUSED.
C17_FirstCaseInOrder ==
    last.op = "detect_agentic_case" =>
        LET a == Normalized(last.answer)
        IN  /\ last.result = FirstCase(a)
            /\ last.answer = NoIdea => last.result = "IDK"
            /\ (a # <<>> /\ a \notin idk_phrases /\ Len(split(a)) < 5)
                  => last.result = "TOO_SHORT"
            /\ (Len(split(a)) >= 5 /\ CasePredicate("CONFUSED", a)
                /\ CasePredicate("CHATTY", a))
                  => last.result = "CONFUSED"

\* An answer of 5 tokens or more that opens with a greeting and holds a
\* confusion phrase, classified CONFUSED.
C17_Witness ==
    /\ last.op = "detect_agentic_case"
    /\ Len(split(Normalized(last.answer))) >= 5
    /\ CasePredicate("CONFUSED", Normalized(last.answer))
    /\ CasePredicate("CHATTY", Normalized(last.answer))
    /\ last.result = "CONFUSED"

\* The rubric the last call worked with: its argument, or the file's.
EffectiveRubric == IF last.rubric = NoRubric THEN last.loaded.rubric ELSE last.rubric

\* simple_scores was called on the sample answer with a rubric whose
\* depth_keywords contain "caching" and "indexing", good_depth_matches = 2 and
\* short_answer_tokens = 12.
SampleCall ==
    /\ last.op = "simple_scores"
    /\ ~last.raised
    /\ last.answer = SampleAnswer
    /\ LET rb == EffectiveRubric
       IN  /\ {"thresholds", "depth_keywords"} \subseteq DOMAIN rb
           /\ rb["thresholds"] = [short_answer_tokens |-> 12, good_depth_matches |-> 2]
           /\ \E i, j \in DOMAIN rb["depth_keywords"] :
                 /\ rb["depth_keywords"][i] = K_caching
                 /\ rb["depth_keywords"][j] = K_indexing

\* The keywords of the rubric that occur in the sample answer are those two.
OnlyCachingAndIndexingMatch ==
    LET kws == EffectiveRubric["depth_keywords"]
    IN  \A i \in DOMAIN kws :
           contains(lower(SampleAnswer), lower(kws[i])) => kws[i] \in {K_caching, K_indexing}

\* The bullets scores_to_feedback makes of the scores of the last call.
BulletsOfScores == scores_to_feedback(last.scores, last.rubric, last.loaded).bullets

\* C18 as stated: on the sample answer simple_scores counts 12 tokens and
\* gives communication 4, depth 4, relevance 4, of which scores_to_feedback
\* makes the three affirmations.
C18_SampleScoresAllFour ==
    SampleCall =>
        /\ last.n_tokens = 12
        /\ last.scores = [communication |-> 4, depth |-> 4, relevance |-> 4]
        /\ BulletsOfScores = <<StrongCommunication, GoodDepth, HighlyRelevant>>

\* C18, amended: on the sample answer, no other keyword of the rubric
\* occurring in it, simple_scores counts 11 tokens and gives communication 2,
\* depth 4, relevance 3, of which scores_to_feedback makes the rubric's
\* structure_tip (its default where the rubric has none), the depth
\* affirmation and the "mostly relevant" suggestion.
C18_SampleScores ==
    (SampleCall /\ OnlyCachingAndIndexingMatch) =>
        /\ last.n_tokens = 11
        /\ last.scores = [communication |-> 2, depth |-> 4, relevance |-> 3]
        /\ BulletsOfScores =
              <<IF "messages" \in DOMAIN EffectiveRubric
                   /\ "structure_tip" \in DOMAIN EffectiveRubric["messages"]
                THEN EffectiveRubric["messages"]["structure_tip"]
                ELSE DefaultStructureTip,
                GoodDepth, MostlyRelevant>>

\* The sample answer scored with the rubric of the file, which has a
\* structure_tip of its own.
C18_Witness ==
    /\ SampleCall
    /\ OnlyCachingAndIndexingMatch
    /\ last.rubric = NoRubric
    /\ BulletsOfScores[1] = T_structure

\* C19: for a non-empty answer and any rubric simple_scores returns exactly
\* the three integers communication, depth and relevance, each in 1..5.
C19_ScoresInRange ==
    (last.op = "simple_scores" /\ ~last.raised
     /\ last.answer # None /\ last.answer # <<>>) =>
        /\ DOMAIN last.scores = {"communication", "depth", "relevance"}
        /\ \A k \in DOMAIN last.scores : last.scores[k] \in 1..5

\* 40 tokens with four keywords in them, under negative thresholds: the
\* scores at the top of their ranges.
C19_Witness ==
    /\ last.op = "simple_scores"
    /\ ~last.raised
    /\ last.answer = S_40
    /\ last.rubric # NoRubric
    /\ "thresholds" \in DOMAIN last.rubric
    /\ "good_depth_matches" \in DOMAIN last.rubric["thresholds"]
    /\ last.rubric["thresholds"]["good_depth_matches"] < 0
    /\ last.scores = [communication |-> 5, depth |-> 5, relevance |-> 4]

\* The answer of the last call is empty, absent or blank.
BlankAnswer == last.answer = None \/ strip(last.answer) = <<>>

\* C20 as stated: for an empty or blank answer simple_scores returns 1, 1, 1
\* whatever the rubric, whether or not one was given or can be loaded.
C20_FloorUnconditional ==
    (last.op = "simple_scores" /\ BlankAnswer) =>
        (~last.raised /\ last.scores = [communication |-> 1, depth |-> 1, relevance |-> 1])

\* C20, amended: for an empty or blank answer simple_scores returns 1, 1, 1
\* whatever the thresholds and keywords of the rubric it was given or has
\* loaded; with no rubric given and none to load it raises the error of
\* load_rubric, the answer not yet looked at.
C20_FloorOnceRubricLoaded ==
    (last.op = "simple_scores" /\ BlankAnswer) =>
        IF last.rubric = NoRubric /\ last.loaded.raised
        THEN last.raised
        ELSE ~last.raised
             /\ last.scores = [communication |-> 1, depth |-> 1, relevance |-> 1]

\* A blank answer scored with a rubric of negative thresholds whose keyword
\* list is not empty.
C20_Witness ==
    /\ last.op = "simple_scores"
    /\ last.answer = S_blank
    /\ last.rubric # NoRubric
    /\ {"thresholds", "depth_keywords"} \subseteq DOMAIN last.rubric
    /\ last.rubric["thresholds"] = [short_answer_tokens |-> -1, good_depth_matches |-> -3]
    /\ last.rubric["depth_keywords"] # <<>>
    /\ last.scores = [communication |-> 1, depth |-> 1, relevance |-> 1]

\* The keywords of the rubric, one for those that differ in case only, that
\* occur in the answer of the last call.
DistinctKeywordsInAnswer ==
    LET kws == get(EffectiveRubric, "depth_keywords", <<>>)
    IN  {lower(kws[i]) : i \in {j \in DOMAIN kws :
                                   contains(lower(last.answer), lower(kws[j]))}}

\* C21: the match count of simple_scores is the number of distinct
\* depth_keywords of the rubric that occur, whatever their case, as a
\* substring of the answer: a keyword repeated in the answer counts once, and
\* so does a keyword the list repeats or has in two spellings.
C21_MatchesCountDistinctKeywords ==
    (last.op = "simple_scores" /\ ~last.raised /\ ~BlankAnswer) =>
        last.matches = Cardinality(DistinctKeywordsInAnswer)

\* The short_answer_tokens threshold the last call worked with.
ShortAnswerThreshold ==
    get(get(EffectiveRubric, "thresholds", EmptyDict),
        "short_answer_tokens", DefaultShortAnswerTokens)

\* What simple_scores gives, with the rubric of the last call, for the
\* answers that have the match count of the last call and more tokens.
LongerAnswersScored ==
    {r \in {simple_scores(other, last.rubric, last.loaded) :
               other \in ScoreAnswers \ {None, <<>>}} :
        r.matches = last.matches /\ r.n_tokens > last.n_tokens}

\* C22: with one rubric, of two non-empty answers with the same match count
\* the one with fewer tokens has a communication score no greater than the
\* other's; so a token count going from below short_answer_tokens to at or
\* above it never lowers the communication score.
C22_CommunicationMonotone ==
    (last.op = "simple_scores" /\ ~last.raised /\ last.answer \notin {None, <<>>}) =>
        \A r \in LongerAnswersScored :
            last.scores["communication"] <= r.scores["communication"]

\* An answer below short_answer_tokens and a longer one at or above it with
\* the same matches, one of them at least: the communication score rises.
C22_Witness ==
    /\ last.op = "simple_scores"
    /\ ~last.raised
    /\ last.answer \notin {None, <<>>}
    /\ last.matches >= 1
    /\ last.n_tokens < ShortAnswerThreshold
    /\ \E r \in LongerAnswersScored :
          /\ r.n_tokens >= ShortAnswerThreshold
          /\ last.scores["communication"] < r.scores["communication"]

\* The tip of the rubric of the last call under a key of its messages, or
\* the hard-coded one where the rubric has none.
TipOfRubric(key, default) ==
    IF "messages" \in DOMAIN EffectiveRubric /\ key \in DOMAIN EffectiveRubric["messages"]
    THEN EffectiveRubric["messages"][key]
    ELSE default

\* The bullet of a dimension by the bucket of its score in the last call.
BulletOfBucket(dimension, affirmation, suggestion, key, default) ==
    LET score == last.scores[dimension]
    IN  {b \in {affirmation, suggestion, TipOfRubric(key, default)} :
            \/ score >= 4 /\ b = affirmation
            \/ score = 3 /\ b = suggestion
            \/ score <= 2 /\ b = TipOfRubric(key, default)}

\* C23: for every score triple and rubric scores_to_feedback returns three
\* bullets, for communication, depth and relevance in that order, each the
\* one of the bucket of its own score: the affirmation from 4, the
\* suggestion at 3, up to 2 the structure_tip, detail_tip or on_topic_tip of
\* the rubric, or the hard-coded tip where the rubric has none.
C23_ThreeBulletsByBucket ==
    (/\ last.op = "scores_to_feedback"
     /\ DOMAIN last.scores = {"communication", "depth", "relevance"}
     /\ ~(last.rubric = NoRubric /\ last.loaded.raised)) =>
        /\ ~last.raised
        /\ Len(last.bullets) = 3
        /\ {last.bullets[1]} =
              BulletOfBucket("communication", StrongCommunication, GoodClarity,
                             "structure_tip", DefaultStructureTip)
        /\ {last.bullets[2]} =
              BulletOfBucket("depth", GoodDepth, SomeDetails, "detail_tip", DefaultDetailTip)
        /\ {last.bullets[3]} =
              BulletOfBucket("relevance", HighlyRelevant, MostlyRelevant,
                             "on_topic_tip", DefaultOnTopicTip)

\* One score in each bucket, with a rubric that has a structure_tip and no
\* detail_tip.
C23_Witness ==
    /\ last.op = "scores_to_feedback"
    /\ last.scores = [communication |-> 2, depth |-> 1, relevance |-> 3]
    /\ last.rubric # NoRubric
    /\ "messages" \in DOMAIN last.rubric
    /\ DOMAIN last.rubric["messages"] = {"structure_tip"}
    /\ last.bullets = <<T_structure, DefaultDetailTip, MostlyRelevant>>

(***************************************************************************)
(* Properties of the collaborator and of the page.                         *)
(***************************************************************************)
\* The attempts of the last groq_generate call on a transport.
Attempts(transport) ==
    Cardinality({i \in DOMAIN last.attempts : last.attempts[i] = transport})

\* The SDK gave the last call nothing: there was no client, or its call
\* raised.
SdkFailed == ~last.client \/ (last.sdk # "not_called" /\ last.sdk_raised)

\* The HTTP request of the last call failed: no answer, or an error status.
HttpFailed == last.http \in {"http_unreachable", "http_401", "http_403", "http_500"}

\* C24: a groq_generate call makes at most one attempt with the SDK and at
\* most one by HTTP, the SDK's first, the HTTP one only where there is no SDK
\* client or its call raised; where both fail the call raises.  The session
\* calls groq_generate at most once for a question, once for feedback and
\* once for a follow-up, and not again when a call has failed.
C24_OneFallbackNoRetry ==
    /\ last.op = "groq_generate" =>
          /\ Attempts("sdk") <= 1
          /\ Attempts("http") <= 1
          /\ last.attempts \in {<<>>, <<"sdk">>, <<"http">>, <<"sdk", "http">>}
          /\ Attempts("http") = 1 => SdkFailed
          /\ (SdkFailed /\ HttpFailed) => last.raised
    /\ last.op = "get_next_question" => last.gen_calls <= 1
    /\ last.op = "process_answer" =>
          /\ last.gen_calls <= (IF NormalPath(last.answer) THEN 2 ELSE 0)
          /\ last.raised => last.gen_calls = 1

\* In a session that has asked a question, a call whose SDK attempt raised
\* and whose HTTP request got no answer.
C24_Witness ==
    /\ agent.history # <<>>
    /\ last.op = "groq_generate"
    /\ last.attempts = <<"sdk", "http">>
    /\ last.sdk = "sdk_unreachable"
    /\ last.http = "http_unreachable"
    /\ last.raised

\* What the service gave the last call: the answer to its HTTP request where
\* it made one, else the reply of the SDK.
ServiceOutcome == IF last.http # "not_called" THEN last.http ELSE last.sdk

Unreachable == {"sdk_unreachable", "http_unreachable"}

Unauthorized == {"sdk_unauthorized", "http_401", "http_403"}

\* A body that is not JSON, and JSON or an SDK reply without the choices and
\* message of a generated text.
Unparseable ==
    {"http_non_json", "http_no_choices", "http_empty_choices", "http_bare_choice",
     "http_null_content", "http_null",
     "sdk_null_content", "sdk_no_choices", "sdk_bare_choice"}

\* C25: groq_generate raises an error, and returns no string, whenever the
\* service is unreachable or refuses the key, or what it returns cannot be
\* parsed into a generated text: a body that is not JSON, or JSON or an SDK
\* reply without a usable choices and message shape.
C25_FailsOnUnusableReply ==
    (/\ last.op = "groq_generate"
     /\ ServiceOutcome \in Unreachable \cup Unauthorized \cup Unparseable) =>
        last.raised

\* The last run of the submit handler called process_answer.
TurnTaken == ui.handler = "submit" /\ ui.calls # <<>>

\* C26: in the page's turn loop, a submitted answer whose turn is not
\* finished and has no follow-up has a new main question requested with
\* get_next_question of the same agent in that same run of the handler,
\* before another answer is accepted; a persona turn, whose followup is the
\* nudge, has none requested.
C26_NextQuestionInSameTurn ==
    (TurnTaken /\ ~ui.calls[1].raised) =>
        /\ ui.calls[1].op = "process_answer"
        /\ (~ui.calls[1].finished /\ ~ui.calls[1].followup) =>
              /\ Len(ui.calls) = 2
              /\ ui.calls[2].op = "get_next_question"
              /\ ui.calls[2].id = ui.calls[1].id
        /\ ui.calls[1].persona_case # NoCase =>
              /\ ui.calls[1].followup
              /\ Len(ui.calls) = 1

\* A normal turn whose follow-up generation gave nothing, and the question
\* then generated shown as the last message.
C26_Witness ==
    /\ TurnTaken
    /\ ui.answer = A_normal
    /\ ~ui.error
    /\ Len(ui.calls) = 2
    /\ ~ui.calls[1].followup
    /\ ui.calls[2].op = "get_next_question"
    /\ messages[Len(messages)] = Message("Interviewer", cleaned_question[G_prefixed])

\* C27: process_answer changes nothing when it raises: the history,
\* followup_count and the persona counters of the session are as before the
\* call, so that the same answer submitted again after a failure is not in
\* the history twice.
C27_FailedTurnLeavesAgent ==
    [][(ui'.handler = "submit" /\ ui'.calls # <<>> /\ ui'.calls[1].raised) =>
          agent' = agent]_vars

\* C28: the question text the page passes to process_answer is the text of
\* the most recent interviewer entry of the agent's history, a generated
\* main question or follow-up: not a persona nudge, not a closing or system
\* message, and not absent.
C28_QuestionIsLastInterviewerEntry ==
    [][(ui'.handler = "submit" /\ ui'.calls # <<>>) =>
          /\ ui'.question # None
          /\ ui'.question = LastQuestion(agent.history)]_vars

====
